---- MODULE Spec2Model ----
(***************************************************************************)
(* Deployment orchestration engine of aws-builder-app                      *)
(* (server/routes/aws.js and server/middleware/validation.js).             *)
(*                                                                         *)
(* One action is one run-to-completion segment of the Node.js event loop:  *)
(* an HTTP handler, or the continuation of processDeployment from one      *)
(* await to the next (including the catch blocks and the .catch callback   *)
(* that run in the same tick), or a stream / exit event of a child         *)
(* process.                                                                *)
(***************************************************************************)
EXTENDS Integers, Sequences, FiniteSets, Bags, TLC

\* ---------------------------------------------------------------- bounds
MaxChunks == 1        \* lines of git clone output kept in the log of one workflow
DeploymentIds == {1}      \* the ids uuidv4() hands out, in this order
PairIds == {1, 2}         \* the ids of two workflows that run side by side
MaxOperations == 2    \* how many ECR push operations are requested
MaxBuilds == 1        \* how many docker builds are requested
MaxOffset == 2        \* largest ?offset= of a /logs request
MaxLimit == 2         \* largest ?limit= of a /logs request
RunIds == {1, 2}          \* the invocations of processDeployment

VARIABLES
  activeDeployments,  \* the Map of aws.js, as a sequence indexed by id
  runs,               \* the invocations of processDeployment
  io,                 \* events emitted to the socket rooms by the last step
  res,                \* HTTP response written by the last step
  rooms,              \* socket.io: the sockets joined to each room
  processEnv,         \* process.env: whose AWS credentials it holds
  tmpDirs,            \* the directories tmp.dirSync has created
  terraformSessions,  \* the Map activeDeployments of routes/github.js
  activeECROperations,  \* the Map of routes/ecr.js, in order of creation
  activeBuilds,       \* the Map of routes/docker.js, in order of creation
  spawned             \* the docker commands spawnSync ran in the last step

vars == <<activeDeployments, runs, io, res, rooms, processEnv, tmpDirs,
          terraformSessions, activeECROperations, activeBuilds, spawned>>

\* state of the Node process that processDeployment writes
host == <<processEnv, tmpDirs>>

\* state that no handler of routes/aws.js writes
\* state of the image routes (routes/ecr.js, routes/docker.js)
images == <<activeECROperations, activeBuilds, spawned>>

others == <<rooms, terraformSessions, images>>

\* ------------------------------------------------------------- constants
StageIds ==
  << "clone", "build", "ecr-setup", "push", "terraform-init",
     "terraform-plan", "terraform-apply", "kubectl-config", "deploy-app",
     "verify" >>

StageIndex(id) == CHOOSE i \in 1..Len(StageIds) : StageIds[i] = id

Null == "null"
NoMessage == << >>
NoCredentials == 0     \* process.env without AWS_ACCESS_KEY_ID
ExitCodes == {0, 1, 2}
CodeStr(code) == IF code = 0 THEN "0" ELSE IF code = 1 THEN "1" ELSE "2"

\* what a chunk of process output contains, as far as the code looks at it
StderrKinds == {"already exists", "AlreadyExists", "other"}
StdoutKinds == {"json", "text"}

\* String.includes on a chunk
ChunkIncludes(kind, needle) == kind = needle

\* stdout += output, as far as JSON.parse can tell the results apart
AppendStdout(stdout, kind) ==
  IF stdout = "" /\ kind = "json" THEN "json" ELSE "garbage"

\* keys of the repository object of a request body
RequiredRepoKeys == {"url", "branch", "owner", "name"}
KnownRepoKeys == RequiredRepoKeys \cup {"accessToken", "isPrivate"}
GitRepository == RequiredRepoKeys
PrebuiltRepository == RequiredRepoKeys \cup {"ecrImageUri"}
ArtifactOnlyRepository == {"ecrImageUri"}
RequestBodies ==
  [ repository : {GitRepository, PrebuiltRepository, ArtifactOnlyRepository},
    rest : {"valid", "invalid"} ]

\* ---------------------------------------------------------------- events
\* entry: for a deployment-log event built from a stored logEntry
\* ({deploymentId, ...logEntry}), the index of that entry in deployment.logs
BaseEvent(name, d) ==
  [ name |-> name, deploymentId |-> d, stepId |-> Null, status |-> Null,
    level |-> Null, message |-> NoMessage, type |-> Null,
    deploymentUrl |-> Null, isDestroy |-> FALSE, entry |-> 0 ]

StepUpdateEvent(d, stepId, status) ==
  [ BaseEvent("step-update", d) EXCEPT !.stepId = stepId, !.status = status ]

LogEvent(name, d, message, level, stepId) ==
  [ BaseEvent(name, d) EXCEPT
      !.message = message, !.level = level, !.stepId = stepId ]

TerraformLogEvent(d, message, type) ==
  [ BaseEvent("deployment-log", d) EXCEPT !.message = message, !.type = type ]

DeploymentFailedEvent(d, message) ==
  [ BaseEvent("deployment-failed", d) EXCEPT !.message = message ]

DeploymentCompletedEvent(d, url, isDestroy) ==
  [ BaseEvent("deployment-completed", d) EXCEPT
      !.deploymentUrl = url, !.isDestroy = isDestroy ]

DeploymentCancelledEvent(d) == BaseEvent("deployment-cancelled", d)

NoResponse == [ code |-> 0, deploymentId |-> 0, status |-> Null,
                steps |-> << >> ]

\* no terraform request was handled for a session of routes/github.js yet
NoRequest == [ command |-> Null, wouldExit |-> 0, fate |-> "answered" ]

\* ------------------------------------------------------------- processes
\* stdout: the collected standard output ("" | "json" | "garbage");
\* stderrAlreadyExists: stderr.includes('already exists') of the collected
\* standard error; chunks: 'data' events delivered so far (git only);
\* env: the credentials in the environment the process was started with
NoProc == [ cmd |-> "none", state |-> "none", code |-> 0, stdout |-> "",
            stderrAlreadyExists |-> FALSE, chunks |-> 0, killed |-> FALSE,
            env |-> NoCredentials ]

Spawn(cmd) == [ NoProc EXCEPT !.cmd = cmd, !.state = "running" ]

TerraformCmds == {"init", "plan", "apply", "destroy", "output"}
ImportCmds == {"import1", "import2", "import3"}

\* ------------------------------------------------- validation middleware
\* a validator that lets every body through
ValidationPassesAll(body) == TRUE

\* Joi: required keys must be present; stripUnknown is always true
\* (options.stripUnknown || true), so unknown keys are removed, not refused.
ValidationPasses(body) ==
  /\ body.rest = "valid"
  /\ RequiredRepoKeys \subseteq body.repository

StripUnknown(repository) == repository \cap KnownRepoKeys

validateDeploymentRequest(body) ==
  [ error |-> ~ValidationPasses(body),
    value |-> [ repository |-> StripUnknown(body.repository)
                                 \cup {"isPrivate"},   \* default(false)
                rest |-> body.rest ] ]

\* --------------------------------------- helpers of processDeployment
\* A context threads the deployment record and the emitted events through
\* the synchronous statements of one segment.
\* env and dirs are process.env and the directories of tmp as the segment
\* finds and leaves them.
Ctx(d) == [ id |-> d, dep |-> activeDeployments[d], io |-> << >>,
            env |-> processEnv, dirs |-> tmpDirs ]

\* the directories tmp has made so far for the owner, for this purpose
DirsOf(dirs, owner, kind) ==
  { x \in dirs : x.owner = owner /\ x.kind = kind }

\* the name of the directory the next tmp.dirSync returns: names are never
\* reused
NextDir(dirs, owner, kind) == Cardinality(DirsOf(dirs, owner, kind)) + 1

\* tmp.dirSync({ unsafeCleanup: true }): a new directory
tmpDirSync(c, kind) ==
  [ c EXCEPT !.dirs = @ \cup {[ owner |-> c.id, kind |-> kind,
                                 name |-> NextDir(c.dirs, c.id, kind),
                                 exists |-> TRUE ]} ]

\* an updateStep that takes the stage out of the list and appends it anew
updateStepAtEnd(c, stepId, status) ==
  [ c EXCEPT
      !.dep.steps = SelectSeq(@, LAMBDA x : x.id # stepId)
                      \o << [ id |-> stepId, status |-> status ] >>,
      !.io = Append(@, StepUpdateEvent(c.id, stepId, status)) ]

\* lines 644-659: find the stage by id, write its status (message and
\* timestamp are not kept here), emit step-update
updateStep(c, stepId, status) ==
  [ c EXCEPT
      !.dep.steps = [ i \in DOMAIN @ |->
                        IF @[i].id = stepId
                          THEN [ @[i] EXCEPT !.status = status ]
                          ELSE @[i] ],
      !.io = Append(@, StepUpdateEvent(c.id, stepId, status)) ]

\* an addLog that stores the entry and publishes nothing
addLogUnpublished(c, message, level, stepId) ==
  [ c EXCEPT
      !.dep.logs = @ (+) SetToBag({[ message |-> message, level |-> level,
                                     stepId |-> stepId ]}) ]

\* an addLog that stores the entry at the head of the log (unshift)
addLogAtHead(c, message, level, stepId) ==
  [ c EXCEPT
      !.dep.logs = @ (+) SetToBag({[ message |-> message, level |-> level,
                                     stepId |-> stepId ]}),
      !.io = @ \o
        << [ LogEvent("deployment-log", c.id, message, level, stepId)
               EXCEPT !.entry = 1 ],
           LogEvent("realTimeLog", c.id, message, level, stepId) >> ]

\* logs.push(logEntry) stores the entry at index logs.length + 1 (the log is
\* kept as a bag: the indices live in the events only)
addLog(c, message, level, stepId) ==
  [ c EXCEPT
      !.dep.logs = @ (+) SetToBag({[ message |-> message, level |-> level,
                                     stepId |-> stepId ]}),
      !.io = @ \o
        << [ LogEvent("deployment-log", c.id, message, level, stepId)
               EXCEPT !.entry = BagCardinality(c.dep.logs) + 1 ],
           LogEvent("realTimeLog", c.id, message, level, stepId) >> ]

emitTerraformLog(c, message, type) ==
  [ c EXCEPT !.io = Append(@, TerraformLogEvent(c.id, message, type)) ]

setStatus(c, status) == [ c EXCEPT !.dep.status = status ]

NewDeployment(repository) ==
  [ status |-> "initializing",
    steps |-> [ i \in 1..Len(StageIds) |->
                  [ id |-> StageIds[i], status |-> "pending" ] ],
    config |-> [ repository |-> repository, destroy_mode |-> FALSE ],
    logs |-> EmptyBag,
    error |-> NoMessage,
    deploymentUrl |-> Null,
    terraformOutputs |-> Null,
    repositoryPath |-> 0,
    terraformWorkingDir |-> 0,
    terraformCleanup |-> 0 ]

\* ------------------------------------------------ outcomes of a segment
\* where the run waits next (pc, proc), or that it has ended (state)
\* a process that is started gets the environment of this moment
\* (env: { ...process.env }, or the inherited process.env)
Continue(c, pc, proc) ==
  [ c |-> c, pc |-> pc, state |-> "active",
    proc |-> IF proc.state = "running" THEN [ proc EXCEPT !.env = c.env ]
                                       ELSE proc ]

\* a .catch callback of /destroy that writes a status of its own
FailedStatusUnlisted(handler) ==
  IF handler = "start" THEN "failed" ELSE "error"

FailedStatus(handler) ==
  IF handler = "start" THEN "failed" ELSE "destroy-failed"

\* a handler whose .catch callback publishes nothing
ThrowUnreported(c, handler, pc, stageLog, stepId, message) ==
  LET c1 == addLog(c, stageLog \o message, "error", stepId)
      c2 == [ c1 EXCEPT !.dep.status = "failed", !.dep.error = message ]
      c3 == addLog(c2, <<"Deployment failed">> \o message, "error", Null)
  IN [ c |-> c3, pc |-> pc, proc |-> NoProc, state |-> "failed" ]

\* A stage's catch block (addLog, rethrow), the outer catch of
\* processDeployment and the .catch callback of the handler that started
\* the run; pc stays where the run failed.
Throw(c, handler, pc, stageLog, stepId, message) ==
  LET c1 == addLog(c, stageLog \o message, "error", stepId)
      c2 == [ c1 EXCEPT !.dep.status = "failed", !.dep.error = message ]
      c3 == addLog(c2, <<"Deployment failed">> \o message, "error", Null)
      c4 == [ c3 EXCEPT
                !.dep.status = FailedStatus(handler),
                !.dep.error = message,
                !.io = Append(@, DeploymentFailedEvent(c.id, message)) ]
  IN [ c |-> c4, pc |-> pc, proc |-> NoProc, state |-> "failed" ]

\* a completion that announces itself before and after its log entry
CompleteTwice(c, pc, isDestroyMode) ==
  LET c1 == setStatus(c, "completed")
      event == DeploymentCompletedEvent(c.id, c.dep.deploymentUrl,
                                        isDestroyMode)
      c2 == [ c1 EXCEPT !.io = Append(@, event) ]
      c3 == addLog(c2, <<"Deployment completed successfully!">>, "info",
                   Null)
      c4 == [ c3 EXCEPT !.io = Append(@, event) ]
  IN [ c |-> c4, pc |-> pc, proc |-> NoProc, state |-> "done" ]

\* lines 986-997
Complete(c, pc, isDestroyMode) ==
  LET c1 == setStatus(c, "completed")
      c2 == addLog(c1,
              IF isDestroyMode
                THEN <<"Infrastructure destruction completed successfully!">>
                ELSE <<"Deployment completed successfully!">>,
              "info", Null)
      c3 == [ c2 EXCEPT !.io = Append(@,
                DeploymentCompletedEvent(c.id, c.dep.deploymentUrl,
                                         isDestroyMode)) ]
  IN [ c |-> c3, pc |-> pc, proc |-> NoProc, state |-> "done" ]

\* lines 857-874, up to the await of fs.cp
BeginTerraformInit(c) ==
  LET c1 == updateStep(c, "terraform-init", "running")
      c2 == addLog(c1, <<"Setting up Terraform configuration">>, "info", Null)
      t1 == tmpDirSync(c2, "terraform")
      t2 == [ t1 EXCEPT
                !.dep.terraformWorkingDir = NextDir(c.dirs, c.id, "terraform"),
                !.dep.terraformCleanup = NextDir(c.dirs, c.id, "terraform") ]
      c3 == addLog(t2, <<"Created Terraform working directory">>, "info",
                   Null)
  IN Continue(c3, "cp", NoProc)

UsesPrebuiltImage(dep) == "ecrImageUri" \in dep.config.repository

\* lines 684-738 (and 747-756, 857-874 with a prebuilt image): from the
\* call of processDeployment to its first await
ProcessDeploymentBegin(c) ==
  LET c1 == setStatus(c, "running")
  IN IF UsesPrebuiltImage(c.dep)
       THEN
         LET a1 == updateStep(c1, "clone", "completed")
             a2 == addLog(a1, <<"Using pre-built ECR image">>, "success",
                          "clone")
             a3 == addLog(a2, <<"Repository clone skipped">>, "info", "clone")
             a4 == updateStep(a3, "build", "completed")
             a5 == updateStep(a4, "ecr-setup", "completed")
             a6 == updateStep(a5, "push", "completed")
             a7 == addLog(a6, <<"Using pre-built ECR image">>, "info", Null)
             a8 == addLog(a7, <<"Skipping Docker build and ECR push">>,
                          "info", Null)
         IN BeginTerraformInit(a8)
       ELSE
         LET b1 == updateStep(c1, "clone", "running")
             b2 == addLog(b1, <<"Cloning repository">>, "info", "clone")
             t1 == tmpDirSync(b2, "repository")
             t2 == [ t1 EXCEPT !.dep.repositoryPath =
                       NextDir(c.dirs, c.id, "repository") ]
             b3 == IF "accessToken" \in c.dep.config.repository
                     THEN addLog(t2, <<"Using GitHub access token">>, "info",
                                 "clone")
                     ELSE t2
         IN Continue(b3, "clone", Spawn("git"))

\* lines 729-740 and 759-769: the 'close' event of git clone
AfterGitClose(c, handler, code) ==
  IF code = 0
    THEN
      LET c1 == updateStep(c, "clone", "completed")
          c2 == addLog(c1, <<"Repository cloned">>, "success", "clone")
          c3 == updateStep(c2, "build", "running")
          c4 == addLog(c3, <<"Building Docker image from repository">>,
                       "info", Null)
      IN Continue(c4, "dockerfile", NoProc)
    ELSE Throw(c, handler, "clone", <<"Repository clone failed">>, "clone",
               <<"Git clone failed with code", CodeStr(code)>>)

\* lines 768-781: fs.access(Dockerfile) settles
AfterDockerfileAccess(c, handler, found) ==
  IF found
    THEN Continue(addLog(c, <<"Dockerfile found in repository">>, "info",
                         Null), "build", NoProc)
    ELSE Throw(c, handler, "dockerfile", <<"Docker image build failed">>,
               Null, <<"Dockerfile not found in repository root">>)

HttpOutcomes == {"success", "unsuccessful", "error"}

HttpError(outcome, unsuccessfulMessage) ==
  IF outcome = "unsuccessful" THEN unsuccessfulMessage
                              ELSE <<"Request failed">>

\* lines 783-803: the build-image request settles
AfterBuildResponse(c, handler, outcome) ==
  IF outcome = "success"
    THEN
      LET c1 == updateStep(c, "build", "completed")
          c2 == addLog(c1, <<"Docker image built">>, "info", Null)
          c3 == updateStep(c2, "ecr-setup", "running")
          c4 == addLog(c3, <<"Creating ECR repository if not exists">>,
                       "info", Null)
      IN Continue(c4, "ecr", NoProc)
    ELSE Throw(c, handler, "build", <<"Docker image build failed">>, Null,
               HttpError(outcome, <<"Image build failed">>))

\* lines 805-826: the create-repository request settles
AfterEcrResponse(c, handler, outcome) ==
  IF outcome = "success"
    THEN
      LET c1 == updateStep(c, "ecr-setup", "completed")
          c2 == addLog(c1, <<"ECR repository ready">>, "info", Null)
          c3 == updateStep(c2, "push", "running")
          c4 == addLog(c3, <<"Pushing Docker image to ECR">>, "info", Null)
      IN Continue(c4, "auth", NoProc)
    ELSE Throw(c, handler, "ecr", <<"ECR repository setup failed">>, Null,
               HttpError(outcome, <<"ECR repository setup failed">>))

\* lines 828-840: the auth-token request settles
AfterAuthResponse(c, handler, outcome) ==
  IF outcome = "success"
    THEN Continue(c, "push", NoProc)
    ELSE Throw(c, handler, "auth", <<"ECR push failed">>, Null,
               HttpError(outcome, <<"Failed to get ECR auth token">>))

\* lines 842-874: the push-to-ecr request settles
AfterPushResponse(c, handler, outcome) ==
  IF outcome = "success"
    THEN
      LET c1 == updateStep(c, "push", "completed")
          c2 == addLog(c1, <<"Image pushed to ECR">>, "info", Null)
      IN BeginTerraformInit(c2)
    ELSE Throw(c, handler, "push", <<"ECR push failed">>, Null,
               HttpError(outcome, <<"ECR push failed">>))

\* lines 874-902: fs.cp and the two fs.writeFile calls settle
AfterFileOperation(c, handler, pc, ok) ==
  IF ~ok
    THEN Throw(c, handler, pc, <<"Terraform initialization failed">>, Null,
               <<"File operation failed">>)
    ELSE IF pc = "cp"
      THEN Continue(addLog(c, <<"Copied Terraform templates">>, "info",
                           Null), "tfvars", NoProc)
    ELSE IF pc = "tfvars"
      THEN Continue(addLog(c, <<"Generated Terraform variables">>, "info",
                           Null), "backend", NoProc)
    ELSE Continue([ addLog(c, <<"Generated backend configuration">>, "info",
                           Null) EXCEPT !.env = c.id ],
                  "init", Spawn("init"))

\* lines 1370: which 'close' events resolve the promise of executeTerraform
closeResolves(command, code, stderrAlreadyExists) ==
  code = 0 \/ (code = 1 /\ stderrAlreadyExists)

TerraformFailure(command, code) ==
  <<"Terraform failed with exit code", command, CodeStr(code)>>

TerraformSpawnFailure == <<"Failed to start terraform process">>

\* lines 1394-1407: announce and start the next import command
BeginImport(c, pc) ==
  Continue(emitTerraformLog(c, <<"Importing", pc>>, "terraform-import"),
           pc, Spawn(pc))

\* JSON.parse of the collected stdout of terraform output
ParsesAsJson(stdout) == stdout = "json"

\* a pipeline that enters deploy-app without configuring kubectl
BeginWithDeployApp(c) ==
  LET c1 == updateStep(c, "deploy-app", "running")
      c2 == addLog(c1, <<"Deploying application to EKS cluster">>, "info",
                   Null)
  IN Continue(c2, "deploy-app", NoProc)

\* lines 965-966
BeginKubectlConfig(c) ==
  LET c1 == updateStep(c, "kubectl-config", "running")
      c2 == addLog(c1, <<"Setting up Kubernetes cluster access">>, "info",
                   Null)
  IN Continue(c2, "kubectl-config", NoProc)

\* a pipeline without the inner try/catch: unreadable outputs fail the stage
AfterTerraformOutputStrict(c, resolved, stdout) ==
  IF resolved /\ ParsesAsJson(stdout)
    THEN
      LET c1 == addLog([ c EXCEPT !.dep.terraformOutputs = "parsed" ],
                       <<"Retrieved Terraform outputs">>, "info", Null)
          c2 == updateStep(c1, "terraform-apply", "completed")
          c3 == addLog(c2, <<"Terraform apply completed successfully">>,
                       "info", Null)
      IN BeginKubectlConfig(c3)
    ELSE Throw(c, "start", "output", <<"Infrastructure deployment failed">>,
               Null, <<"Failed to parse terraform outputs">>)

\* lines 946-955 and 963-966: the promise of terraform output settles
AfterTerraformOutput(c, resolved, stdout) ==
  LET c1 == IF resolved /\ ParsesAsJson(stdout)
              THEN addLog([ c EXCEPT !.dep.terraformOutputs = "parsed" ],
                          <<"Retrieved Terraform outputs">>, "info", Null)
              ELSE addLog(c, <<"Failed to parse terraform outputs">>, "warn",
                          Null)
      c2 == updateStep(c1, "terraform-apply", "completed")
      c3 == addLog(c2, <<"Terraform apply completed successfully">>, "info",
                   Null)
  IN BeginKubectlConfig(c3)

\* a destroy run that goes on to the application stages
AfterDestroyThenKubectl(c, pc) ==
  LET c1 == updateStep(c, "terraform-apply", "completed")
      c2 == addLog(c1, <<"Terraform destroy completed successfully">>,
                   "info", Null)
  IN BeginKubectlConfig(c2)

\* lines 933-934 and 963-997 with isDestroyMode: terraform destroy resolved
AfterDestroy(c, pc) ==
  LET c1 == updateStep(c, "terraform-apply", "completed")
      c2 == addLog(c1, <<"Terraform destroy completed successfully">>,
                   "info", Null)
  IN Complete(c2, pc, TRUE)

\* lines 902-961: the promise of executeTerraform(init|plan|destroy|apply)
\* settles
AfterTerraform(c, handler, pc, resolved, message) ==
  IF pc = "init"
    THEN IF resolved
      THEN
        LET c1 == updateStep(c, "terraform-init", "completed")
            c2 == addLog(c1, <<"Terraform initialization completed">>,
                         "info", Null)
            c3 == updateStep(c2, "terraform-plan", "running")
            c4 == addLog(c3, <<"Creating deployment plan">>, "info", Null)
        IN Continue(c4, "plan", Spawn("plan"))
      ELSE Throw(c, handler, pc, <<"Terraform initialization failed">>,
                 Null, message)
  ELSE IF pc = "plan"
    THEN IF resolved
      THEN
        LET c1 == updateStep(c, "terraform-plan", "completed")
            c2 == addLog(c1, <<"Terraform plan completed">>, "info", Null)
            c3 == updateStep(c2, "terraform-apply", "running")
        IN IF c.dep.config.destroy_mode
             THEN Continue(addLog(c3, <<"Destroying EKS cluster">>, "info",
                                  Null), "destroy", Spawn("destroy"))
             ELSE BeginImport(addLog(c3, <<"Creating EKS cluster">>, "info",
                                     Null), "import1")
      ELSE Throw(c, handler, pc, <<"Terraform planning failed">>, Null,
                 message)
  ELSE IF pc = "destroy"
    THEN IF resolved
      THEN AfterDestroy(c, pc)
      ELSE Throw(c, handler, pc, <<"Infrastructure destruction failed">>,
                 Null, message)
  ELSE \* pc = "apply"
    IF resolved
      THEN Continue(c, "output", Spawn("output"))
      ELSE Throw(c, handler, pc, <<"Infrastructure deployment failed">>,
                 Null, message)

\* lines 967-984: the three simulated stages, one timer each
AfterTimer(c, pc) ==
  IF pc = "kubectl-config"
    THEN
      LET c1 == updateStep(c, "kubectl-config", "completed")
          c2 == updateStep(c1, "deploy-app", "running")
          c3 == addLog(c2, <<"Deploying application to EKS cluster">>,
                       "info", Null)
      IN Continue(c3, "deploy-app", NoProc)
  ELSE IF pc = "deploy-app"
    THEN
      LET c1 == updateStep(c, "deploy-app", "completed")
          c2 == updateStep(c1, "verify", "running")
          c3 == addLog(c2, <<"Checking application health">>, "info", Null)
      IN Continue(c3, "verify", NoProc)
  ELSE
      LET c1 == updateStep(c, "verify", "completed")
          c2 == [ c1 EXCEPT !.dep.deploymentUrl =
                    IF c.dep.terraformOutputs = "parsed"
                      THEN "application_url" ELSE "example.com" ]
      IN Complete(c2, pc, FALSE)

\* ------------------------------------------------------------------ state
\* ids a client may name in a request; 2 is never issued
RequestIds == DeploymentIds \cup {2}

Init ==
  /\ activeDeployments = << >>
  /\ runs = << >>
  /\ io = << >>
  /\ res = NoResponse
  /\ rooms = [ d \in RequestIds |-> {} ]
  /\ processEnv = NoCredentials
  /\ tmpDirs = {}
  /\ terraformSessions = << >>
  /\ activeECROperations = << >>
  /\ activeBuilds = << >>
  /\ spawned = << >>

Known(d) == d \in DOMAIN activeDeployments

\* the Node process is alive: no uncaught exception has ended it
ServerUp ==
  /\ \A r \in DOMAIN runs : runs[r].state # "crashed"
  /\ \A s \in DOMAIN terraformSessions :
       terraformSessions[s].request.fate # "uncaught"

NewRun(d, handler, out) ==
  [ dep |-> d, handler |-> handler, pc |-> out.pc, state |-> out.state,
    proc |-> out.proc ]

Waiting(r, pcs) ==
  /\ r \in DOMAIN runs
  /\ runs[r].state = "active"
  /\ runs[r].pc \in pcs

\* a pipeline that writes its record over every entry of the table
ResumeOverAll(r, out) ==
  /\ runs' = [ runs EXCEPT ![r].pc = out.pc, ![r].state = out.state,
                           ![r].proc = out.proc ]
  /\ activeDeployments' =
       [ d \in DOMAIN activeDeployments |-> out.c.dep ]
  /\ io' = out.c.io
  /\ res' = NoResponse
  /\ processEnv' = out.c.env
  /\ tmpDirs' = out.c.dirs
  /\ UNCHANGED others

\* the run r resumes: out is what the segment did
Resume(r, out) ==
  /\ runs' = [ runs EXCEPT ![r].pc = out.pc, ![r].state = out.state,
                           ![r].proc = out.proc ]
  /\ activeDeployments' =
       [ activeDeployments EXCEPT ![runs[r].dep] = out.c.dep ]
  /\ io' = out.c.io
  /\ res' = NoResponse
  /\ processEnv' = out.c.env
  /\ tmpDirs' = out.c.dirs
  /\ UNCHANGED others

\* ------------------------------------------------------- request handlers
\* the handler of router.post('/start'): the record is stored and
\* processDeployment runs up to its first await before the response is sent
StartHandlerAmong(ids, repository) ==
  /\ ServerUp
  /\ Len(activeDeployments) + 1 \in ids
  /\ Len(runs) + 1 \in RunIds
  /\ LET d == Len(activeDeployments) + 1
         out == ProcessDeploymentBegin(
                  [ id |-> d, dep |-> NewDeployment(repository),
                    io |-> << >>, env |-> processEnv, dirs |-> tmpDirs ])
     IN /\ activeDeployments' = Append(activeDeployments, out.c.dep)
        /\ runs' = Append(runs, NewRun(d, "start", out))
        /\ io' = out.c.io
        /\ res' = [ code |-> 200, deploymentId |-> d,
                    status |-> out.c.dep.status, steps |-> out.c.dep.steps ]
        /\ processEnv' = out.c.env
        /\ tmpDirs' = out.c.dirs
        /\ UNCHANGED others

StartHandler(repository) == StartHandlerAmong(DeploymentIds, repository)

\* router.post('/start', validateDeploymentRequest, ...): a request that
\* passes the middleware reaches the handler with the sanitized body
Start(body) ==
  /\ ~validateDeploymentRequest(body).error
  /\ StartHandler(validateDeploymentRequest(body).value.repository)

\* the handler entered with a context that still carries ecrImageUri
StartPrebuilt == StartHandler(PrebuiltRepository)

\* /start for one of two workflows, each with credentials of its own
StartOfPair(body) ==
  /\ ~validateDeploymentRequest(body).error
  /\ StartHandlerAmong(PairIds,
                       validateDeploymentRequest(body).value.repository)

\* router.post('/destroy/:deploymentId')
Destroy(d) ==
  /\ ServerUp
  /\ Known(d)
  /\ Len(runs) + 1 \in RunIds
  /\ LET c0 == Ctx(d)
         c1 == [ c0 EXCEPT !.dep.config.destroy_mode = TRUE,
                           !.dep.status = "destroying" ]
         out == ProcessDeploymentBegin(c1)
     IN /\ activeDeployments' = [ activeDeployments EXCEPT ![d] = out.c.dep ]
        /\ runs' = Append(runs, NewRun(d, "destroy", out))
        /\ io' = out.c.io
        /\ res' = [ NoResponse EXCEPT !.code = 200, !.deploymentId = d,
                                      !.status = "destroying" ]
        /\ processEnv' = out.c.env
        /\ tmpDirs' = out.c.dirs
        /\ UNCHANGED others

\* router.post('/cancel/:deploymentId')
Cancel(d) ==
  /\ ServerUp
  /\ Known(d)
  /\ activeDeployments' =
       [ activeDeployments EXCEPT ![d].status = "cancelled" ]
  /\ io' = << DeploymentCancelledEvent(d) >>
  /\ res' = [ NoResponse EXCEPT !.code = 200, !.deploymentId = d,
                                !.status = "cancelled" ]
  /\ UNCHANGED <<runs, host, others>>

NotFound == [ NoResponse EXCEPT !.code = 404 ]

\* the middleware refuses the body: 400, the handler is not entered
StartRejected(body) ==
  /\ ServerUp
  /\ validateDeploymentRequest(body).error
  /\ res' = [ NoResponse EXCEPT !.code = 400 ]
  /\ io' = << >>
  /\ UNCHANGED <<activeDeployments, runs, host, others>>

\* lines 1011-1018
DestroyUnknown(d) ==
  /\ ServerUp
  /\ ~Known(d)
  /\ res' = NotFound
  /\ io' = << >>
  /\ UNCHANGED <<activeDeployments, runs, host, others>>

\* a handler that broadcasts before it looks the workflow up
CancelUnknownBroadcasts(d) ==
  /\ ServerUp
  /\ ~Known(d)
  /\ res' = NotFound
  /\ io' = << DeploymentCancelledEvent(d) >>
  /\ UNCHANGED <<activeDeployments, runs, host, others>>

\* lines 1153-1160
CancelUnknown(d) ==
  /\ ServerUp
  /\ ~Known(d)
  /\ res' = NotFound
  /\ io' = << >>
  /\ UNCHANGED <<activeDeployments, runs, host, others>>

\* router.get('/status/:deploymentId')
Status(d) ==
  /\ ServerUp
  /\ res' = IF Known(d)
              THEN [ code |-> 200, deploymentId |-> d,
                     status |-> activeDeployments[d].status,
                     steps |-> activeDeployments[d].steps ]
              ELSE NotFound
  /\ io' = << >>
  /\ UNCHANGED <<activeDeployments, runs, host, others>>

\* router.get('/logs/:deploymentId'); the page of entries is not kept in res
Logs(d) ==
  /\ ServerUp
  /\ res' = IF Known(d)
              THEN [ NoResponse EXCEPT !.code = 200, !.deploymentId = d ]
              ELSE NotFound
  /\ io' = << >>
  /\ UNCHANGED <<activeDeployments, runs, host, others>>

\* ------------------------------------------------------ pages of the log
\* a query parameter is a string of decimal digits, kept as its number, or
\* it is absent
Absent == 0 - 1
OffsetParams == {Absent} \cup (0..MaxOffset)
LimitParams == {Absent} \cup (1..MaxLimit)

Min(a, b) == IF a < b THEN a ELSE b

\* the number of characters of String(n)
Digits(n) == IF n < 10 THEN 1 ELSE IF n < 100 THEN 2 ELSE 3

Pow10(k) == IF k = 1 THEN 10 ELSE IF k = 2 THEN 100 ELSE 1000

\* parseInt(limit), with the default limit = 100
ParsedLimit(limit) == IF limit = Absent THEN 100 ELSE limit

\* offset + parseInt(limit): a number when offset is the default 0, and the
\* string offset followed by the digits of the limit when offset comes
\* from the query; slice() converts that string back to a number
OffsetPlusLimit(offset, limit) ==
  IF offset = Absent
    THEN 0 + ParsedLimit(limit)
    ELSE offset * Pow10(Digits(ParsedLimit(limit))) + ParsedLimit(limit)

\* Array.prototype.slice(start, end) on an array of the given length, as
\* the positions (from 1) of the entries it returns
Slice(length, start, end) ==
  [ k \in 1..(Min(end, length) - Min(start, length)) |->
      Min(start, length) + k ]

\* router.get('/logs/:deploymentId') for a known workflow, with the query
\* it was called with
LogsPage(d, offset, limit) ==
  /\ ServerUp
  /\ Known(d)
  /\ LET total == BagCardinality(activeDeployments[d].logs)
     IN res' = [ code |-> 200, deploymentId |-> d,
                 query |-> [ offset |-> offset, limit |-> limit ],
                 logs |-> Slice(total,
                                IF offset = Absent THEN 0 ELSE offset,
                                OffsetPlusLimit(offset, limit)),
                 total |-> total ]
  /\ io' = << >>
  /\ UNCHANGED <<activeDeployments, runs, host, others>>

\* ------------------------------------------------------- socket clients
Observers == {"a", "b"}

\* socket.on('join-deployment'): socket.join(`deployment-<id>`), for any id
\* the client names; nothing is sent to the socket
Join(o, d) ==
  /\ ServerUp
  /\ o \notin rooms[d]
  /\ rooms' = [ rooms EXCEPT ![d] = @ \cup {o} ]
  /\ io' = << >>
  /\ res' = NoResponse
  /\ UNCHANGED <<activeDeployments, runs, host, terraformSessions, images>>

\* socket 'disconnect': socket.io takes the socket out of its rooms
Disconnect(o) ==
  /\ ServerUp
  /\ \E d \in DOMAIN rooms : o \in rooms[d]
  /\ rooms' = [ d \in DOMAIN rooms |-> rooms[d] \ {o} ]
  /\ io' = << >>
  /\ res' = NoResponse
  /\ UNCHANGED <<activeDeployments, runs, host, terraformSessions, images>>

\* io.to(`deployment-<id>`).emit(...): what the socket o was sent in the
\* last step, i.e. the events for the rooms it is in
Delivered(o) ==
  SelectSeq(io, LAMBDA e : o \in rooms[e.deploymentId])

\* ------------------------------------- terraform sessions (routes/github.js)
SessionIds == {1, 2}                   \* the ids uuidv4() hands out
SessionRequestIds == SessionIds \cup {3}   \* 3 is never issued

\* credentials are told apart by their owner: d for the workflow d of
\* aws.js, -s for the session s
SessionCredentials(s) == 0 - s

\* activeDeployments.has(deploymentId) in routes/github.js
InMap(s) ==
  /\ s \in DOMAIN terraformSessions
  /\ terraformSessions[s].phase = "stored"

\* the working directory of the session s, while it is on disk
SessionDir(s) ==
  [ owner |-> s, kind |-> "session", name |-> 1, exists |-> TRUE ]

\* router.post('/init'), up to the await of fs.cp: the id and the working
\* directory exist, the entry is not stored yet
SessionInitBegin ==
  /\ ServerUp
  /\ Len(terraformSessions) + 1 \in SessionIds
  /\ terraformSessions' =
       Append(terraformSessions,
              [ phase |-> "creating", status |-> Null, processes |-> << >>,
                cleanupCalled |-> FALSE, request |-> NoRequest ])
  /\ tmpDirs' = tmpDirs \cup {SessionDir(Len(terraformSessions) + 1)}
  /\ io' = << >>
  /\ res' = NoResponse
  /\ UNCHANGED <<activeDeployments, runs, rooms, processEnv, images>>

\* router.post('/init'): fs.cp and the two fs.writeFile calls have settled
SessionInitEnd(s, ok) ==
  /\ ServerUp
  /\ s \in DOMAIN terraformSessions
  /\ terraformSessions[s].phase = "creating"
  /\ terraformSessions' =
       [ terraformSessions EXCEPT
           ![s].phase = IF ok THEN "stored" ELSE "failed",
           ![s].status = IF ok THEN "initialized" ELSE Null ]
  /\ res' = IF ok THEN [ NoResponse EXCEPT !.code = 200, !.deploymentId = s ]
                  ELSE [ NoResponse EXCEPT !.code = 500 ]
  /\ io' = << >>
  /\ UNCHANGED <<activeDeployments, runs, rooms, host, images>>

\* the exit code terraform gives on this host when it is run
SessionExitCodes == {0, 1}

SessionCommands == {"init", "plan", "apply"}

\* what becomes of a request: it is answered, it is left without an answer,
\* or its handler ends the Node process with an unhandled rejection
Fates == {"answered", "unanswered", "uncaught"}

\* executeTerraform of github.js (456-512): the initializer of its own
\* "const process" reads process.env, i.e. that constant before it is
\* initialized, so the ReferenceError rejects the promise before anything is
\* spawned: the exit code terraform would give plays no part, and no
\* process is ever pushed to deployment.processes
executeTerraformOfSession(command, wouldExit) == "rejected"

CompleteStatus(command) ==
  IF command = "init" THEN "init-complete"
  ELSE IF command = "plan" THEN "plan-complete" ELSE "apply-complete"

\* the catch block of '/terraform-apply' (710-718) writes
\* deployment.status, but "deployment" is a constant of the try block and
\* not in scope: the ReferenceError leaves the async handler, no response is
\* written, and Node either warns about the unhandled rejection or ends
\* the process, depending on its version
ApplyCatchFates == {"unanswered", "uncaught"}

\* router.post('/terraform-init/:deploymentId'), '/terraform-plan/...' and
\* '/terraform-apply/...' on a host where terraform would exit with
\* wouldExit; request: the request handled last for the session
SessionTerraform(s, command, wouldExit, fate) ==
  /\ ServerUp
  /\ IF InMap(s)
       THEN LET settled == executeTerraformOfSession(command, wouldExit)
            IN /\ fate \in IF settled = "rejected" /\ command = "apply"
                             THEN ApplyCatchFates ELSE {"answered"}
               /\ terraformSessions' =
                    [ terraformSessions EXCEPT
                        ![s].status = IF settled = "resolved"
                                        THEN CompleteStatus(command) ELSE @,
                        ![s].request = [ command |-> command,
                                         wouldExit |-> wouldExit,
                                         fate |-> fate ] ]
               /\ res' = IF settled = "resolved"
                           THEN [ NoResponse EXCEPT
                                    !.code = 200, !.deploymentId = s,
                                    !.status = CompleteStatus(command) ]
                         ELSE IF command = "apply" THEN NoResponse
                         ELSE [ NoResponse EXCEPT
                                  !.code = 500,
                                  !.status = "Terraform failed" ]
       ELSE /\ fate = "answered"
            /\ wouldExit = 0
            /\ res' = NotFound
            /\ UNCHANGED terraformSessions
  /\ processEnv' = IF InMap(s) /\ command = "init"
                     THEN SessionCredentials(s) ELSE processEnv
  /\ io' = << >>
  /\ UNCHANGED <<activeDeployments, runs, rooms, tmpDirs, images>>

\* process.kill('SIGTERM') for every process that is not killed yet
KillAll(processes) ==
  [ i \in DOMAIN processes |-> [ processes[i] EXCEPT !.killed = TRUE ] ]

\* router.get('/status/:deploymentId') of routes/github.js
SessionStatus(s) ==
  /\ ServerUp
  /\ res' = IF InMap(s)
              THEN [ NoResponse EXCEPT !.code = 200, !.deploymentId = s,
                       !.status = terraformSessions[s].status ]
              ELSE NotFound
  /\ io' = << >>
  /\ UNCHANGED <<activeDeployments, runs, rooms, host, terraformSessions,
                 images>>

\* router.post('/cancel/:deploymentId') of routes/github.js
SessionCancel(s) ==
  /\ ServerUp
  /\ IF InMap(s)
       THEN /\ terraformSessions' =
                 [ terraformSessions EXCEPT
                     ![s].processes = KillAll(@),
                     ![s].status = "cancelled" ]
            /\ res' = [ NoResponse EXCEPT !.code = 200, !.deploymentId = s,
                                          !.status = "cancelled" ]
       ELSE /\ res' = NotFound
            /\ UNCHANGED terraformSessions
  /\ io' = << >>
  /\ UNCHANGED <<activeDeployments, runs, rooms, host, images>>

\* what deployment.cleanup() (the removeCallback of tmp) can do: remove the
\* directory, throw because the removal fails, or do nothing because it
\* was called before
CleanupOutcomes == {"removed", "throws", "noop"}

\* router.delete('/cleanup/:deploymentId') for a stored session: kill,
\* cleanup, delete, respond. The handler is synchronous and has no try: when
\* cleanup() throws, the statements after it do not run and the error
\* middleware answers
SessionCleanup(s, outcome) ==
  /\ ServerUp
  /\ InMap(s)
  /\ outcome = "noop" => terraformSessions[s].cleanupCalled
  /\ outcome # "noop" => SessionDir(s) \in tmpDirs
  /\ terraformSessions' =
       [ terraformSessions EXCEPT
           ![s].processes = KillAll(@),
           ![s].cleanupCalled = TRUE,
           ![s].phase = IF outcome = "throws" THEN @ ELSE "deleted" ]
  /\ tmpDirs' =
       IF outcome = "removed"
         THEN { IF x = SessionDir(s) THEN [ x EXCEPT !.exists = FALSE ]
                                     ELSE x : x \in tmpDirs }
         ELSE tmpDirs
  /\ res' = IF outcome = "throws"
              THEN [ NoResponse EXCEPT !.code = 500 ]
              ELSE [ NoResponse EXCEPT !.code = 200, !.deploymentId = s ]
  /\ io' = << >>
  /\ UNCHANGED <<activeDeployments, runs, rooms, processEnv, images>>

\* router.delete('/cleanup/:deploymentId') for an id that is not in the Map
SessionCleanupUnknown(s) ==
  /\ ServerUp
  /\ ~InMap(s)
  /\ res' = NotFound
  /\ io' = << >>
  /\ UNCHANGED <<activeDeployments, runs, rooms, host, terraformSessions,
                 images>>

\* -------------------------------------------------------- child processes
ProcessPcs == {"clone"} \cup {"init", "plan", "destroy", "apply", "output"}
                \cup ImportCmds

\* the operating-system process ends; Node reports it with 'close' later
ProcessExit(r, code) ==
  /\ Waiting(r, ProcessPcs)
  /\ runs[r].proc.state = "running"
  /\ runs[r].pc \in ImportCmds => code = 0   \* "terraform import ... || true"
  /\ runs' = [ runs EXCEPT ![r].proc.state = "exited",
                           ![r].proc.code = code ]
  /\ io' = << >>
  /\ res' = NoResponse
  /\ UNCHANGED <<activeDeployments, host, others>>

\* lines 711-736 and 1402-1406: git or bash does not start. The child emits
\* 'error', no listener is registered for it, the exception is uncaught and
\* the Node process ends: every run ends with it and no request is served.
SpawnError(r) ==
  /\ Waiting(r, {"clone"} \cup ImportCmds)
  /\ runs[r].proc.state = "running"
  /\ runs[r].proc.chunks = 0
  /\ runs' = [ i \in DOMAIN runs |->
                [ runs[i] EXCEPT !.state = "crashed", !.proc = NoProc ] ]
  /\ io' = << >>
  /\ res' = NoResponse
  /\ UNCHANGED <<activeDeployments, host, others>>

\* lines 719-727: gitProcess.stdout / stderr 'data'
\* the lines of git output in a stored log
GitLines(logs) ==
  BagCardinality([ e \in { x \in BagToSet(logs) : x.message = <<"Git">> }
                     |-> logs[e] ])

GitData(r, stream) ==
  /\ Waiting(r, {"clone"})
  /\ runs[r].proc.state = "running"
  /\ GitLines(activeDeployments[runs[r].dep].logs) < MaxChunks
  /\ LET c == addLog(Ctx(runs[r].dep), <<"Git">>,
                     IF stream = "stdout" THEN "info" ELSE "warning",
                     "clone")
     IN /\ activeDeployments' =
             [ activeDeployments EXCEPT ![runs[r].dep] = c.dep ]
        /\ io' = c.io
  /\ runs' = [ runs EXCEPT ![r].proc.chunks = @ + 1 ]
  /\ res' = NoResponse
  /\ UNCHANGED <<host, others>>

\* lines 729-736
GitClose(r) ==
  /\ Waiting(r, {"clone"})
  /\ runs[r].proc.state = "exited"
  /\ Resume(r, AfterGitClose(Ctx(runs[r].dep), runs[r].handler,
                             runs[r].proc.code))

TerraformPcs == {"init", "plan", "destroy", "apply", "output"}

\* lines 1333-1343: terraformProcess.stdout 'data'
TerraformStdout(r, kind) ==
  /\ Waiting(r, TerraformPcs)
  /\ runs[r].proc.state = "running"
  /\ runs' = [ runs EXCEPT ![r].proc.stdout =
                 IF runs[r].pc = "output" THEN AppendStdout(@, kind) ELSE @ ]
  /\ io' = emitTerraformLog(Ctx(runs[r].dep), <<kind>>, "terraform").io
  /\ res' = NoResponse
  /\ UNCHANGED <<activeDeployments, host, others>>

\* lines 1345-1366: terraformProcess.stderr 'data'
TerraformStderr(r, kind) ==
  /\ Waiting(r, TerraformPcs)
  /\ runs[r].proc.state = "running"
  /\ runs' = [ runs EXCEPT ![r].proc.stderrAlreadyExists =
                 @ \/ ChunkIncludes(kind, "already exists") ]
  /\ io' = IF \/ ChunkIncludes(kind, "already exists")
              \/ ChunkIncludes(kind, "AlreadyExists")
             THEN emitTerraformLog(Ctx(runs[r].dep),
                    <<"Resource exists, continuing", kind>>,
                    "terraform-info").io
             ELSE emitTerraformLog(Ctx(runs[r].dep), <<kind>>,
                    "terraform-error").io
  /\ res' = NoResponse
  /\ UNCHANGED <<activeDeployments, host, others>>

\* what processDeployment does once executeTerraform has settled
TerraformSettled(r, resolved, message) ==
  IF runs[r].pc = "output"
    THEN Resume(r, AfterTerraformOutput(Ctx(runs[r].dep), resolved,
                                        runs[r].proc.stdout))
    ELSE Resume(r, AfterTerraform(Ctx(runs[r].dep), runs[r].handler,
                                  runs[r].pc, resolved, message))

\* lines 1368-1375: terraformProcess 'close'
TerraformClose(r) ==
  /\ Waiting(r, TerraformPcs)
  /\ runs[r].proc.state = "exited"
  /\ TerraformSettled(r,
       closeResolves(runs[r].pc, runs[r].proc.code,
                     runs[r].proc.stderrAlreadyExists),
       TerraformFailure(runs[r].pc, runs[r].proc.code))

\* lines 1377-1379: terraformProcess 'error' (the executable did not start)
TerraformError(r) ==
  /\ Waiting(r, TerraformPcs)
  /\ runs[r].proc.state = "running"
  /\ TerraformSettled(r, FALSE, TerraformSpawnFailure)

\* lines 1392-1411 and 1323-1328: importProcess 'close'
ImportClose(r) ==
  /\ Waiting(r, ImportCmds)
  /\ runs[r].proc.state = "exited"
  /\ Resume(r,
       IF runs[r].pc = "import1" THEN BeginImport(Ctx(runs[r].dep), "import2")
       ELSE IF runs[r].pc = "import2"
         THEN BeginImport(Ctx(runs[r].dep), "import3")
       ELSE Continue(Ctx(runs[r].dep), "apply", Spawn("apply")))

\* ------------------------------------------- other awaited completions
DockerfileAccess(r, found) ==
  /\ Waiting(r, {"dockerfile"})
  /\ Resume(r, AfterDockerfileAccess(Ctx(runs[r].dep), runs[r].handler,
                                     found))

HttpResponse(r, outcome) ==
  /\ Waiting(r, {"build", "ecr", "auth", "push"})
  /\ LET c == Ctx(runs[r].dep)
         h == runs[r].handler
     IN Resume(r,
          IF runs[r].pc = "build" THEN AfterBuildResponse(c, h, outcome)
          ELSE IF runs[r].pc = "ecr" THEN AfterEcrResponse(c, h, outcome)
          ELSE IF runs[r].pc = "auth" THEN AfterAuthResponse(c, h, outcome)
          ELSE AfterPushResponse(c, h, outcome))

FileOperation(r, ok) ==
  /\ Waiting(r, {"cp", "tfvars", "backend"})
  /\ Resume(r, AfterFileOperation(Ctx(runs[r].dep), runs[r].handler,
                                  runs[r].pc, ok))

Timer(r) ==
  /\ Waiting(r, {"kubectl-config", "deploy-app", "verify"})
  /\ Resume(r, AfterTimer(Ctx(runs[r].dep), runs[r].pc))

\* ----------------------------------------------------------- specification
Streams == {"stdout", "stderr"}

Next ==
  \/ \E body \in RequestBodies : Start(body)
  \/ \E d \in DeploymentIds : Destroy(d)
  \/ \E d \in DeploymentIds : Cancel(d)
  \/ \E r \in RunIds, code \in ExitCodes : ProcessExit(r, code)
  \/ \E r \in RunIds : SpawnError(r)
  \/ \E r \in RunIds, stream \in Streams : GitData(r, stream)
  \/ \E r \in RunIds : GitClose(r)
  \/ \E r \in RunIds, kind \in StdoutKinds : TerraformStdout(r, kind)
  \/ \E r \in RunIds, kind \in StderrKinds : TerraformStderr(r, kind)
  \/ \E r \in RunIds : TerraformClose(r)
  \/ \E r \in RunIds : TerraformError(r)
  \/ \E r \in RunIds : ImportClose(r)
  \/ \E r \in RunIds, found \in BOOLEAN : DockerfileAccess(r, found)
  \/ \E r \in RunIds, outcome \in HttpOutcomes : HttpResponse(r, outcome)
  \/ \E r \in RunIds, ok \in BOOLEAN : FileOperation(r, ok)
  \/ \E r \in RunIds : Timer(r)

Spec == Init /\ [][Next]_vars

\* processDeployment driven on a stored context that carries ecrImageUri:
\* the stages of the git path are never entered
NextPrebuilt ==
  \/ StartPrebuilt
  \/ \E d \in DeploymentIds : Destroy(d)
  \/ \E d \in DeploymentIds : Cancel(d)
  \/ \E r \in RunIds, code \in ExitCodes : ProcessExit(r, code)
  \/ \E r \in RunIds, kind \in StdoutKinds : TerraformStdout(r, kind)
  \/ \E r \in RunIds, kind \in StderrKinds : TerraformStderr(r, kind)
  \/ \E r \in RunIds : TerraformClose(r)
  \/ \E r \in RunIds : TerraformError(r)
  \/ \E r \in RunIds : ImportClose(r)
  \/ \E r \in RunIds : SpawnError(r)
  \/ \E r \in RunIds, ok \in BOOLEAN : FileOperation(r, ok)
  \/ \E r \in RunIds : Timer(r)

SpecPrebuilt == Init /\ [][NextPrebuilt]_vars

\* the requests of the clients of one workflow that is driven by its first
\* run only (no /destroy for an existing workflow)
NextRequests ==
  \/ \E body \in RequestBodies : Start(body)
  \/ \E body \in RequestBodies : StartRejected(body)
  \/ \E d \in RequestIds : DestroyUnknown(d)
  \/ \E d \in RequestIds : Cancel(d)
  \/ \E d \in RequestIds : CancelUnknown(d)
  \/ \E d \in RequestIds : Status(d)
  \/ \E d \in RequestIds : Logs(d)
  \/ \E r \in RunIds, code \in ExitCodes : ProcessExit(r, code)
  \/ \E r \in RunIds : SpawnError(r)
  \/ \E r \in RunIds, stream \in Streams : GitData(r, stream)
  \/ \E r \in RunIds : GitClose(r)
  \/ \E r \in RunIds, kind \in StdoutKinds : TerraformStdout(r, kind)
  \/ \E r \in RunIds, kind \in StderrKinds : TerraformStderr(r, kind)
  \/ \E r \in RunIds : TerraformClose(r)
  \/ \E r \in RunIds : TerraformError(r)
  \/ \E r \in RunIds : ImportClose(r)
  \/ \E r \in RunIds, found \in BOOLEAN : DockerfileAccess(r, found)
  \/ \E r \in RunIds, outcome \in HttpOutcomes : HttpResponse(r, outcome)
  \/ \E r \in RunIds, ok \in BOOLEAN : FileOperation(r, ok)
  \/ \E r \in RunIds : Timer(r)

SpecRequests == Init /\ [][NextRequests]_vars

\* the callbacks of a run that the event loop runs once they are due, and
\* the end of a child process
PipelineSteps ==
  \/ \E r \in RunIds, code \in ExitCodes : ProcessExit(r, code)
  \/ \E r \in RunIds : GitClose(r)
  \/ \E r \in RunIds : TerraformClose(r)
  \/ \E r \in RunIds : ImportClose(r)
  \/ \E r \in RunIds, found \in BOOLEAN : DockerfileAccess(r, found)
  \/ \E r \in RunIds, outcome \in HttpOutcomes : HttpResponse(r, outcome)
  \/ \E r \in RunIds, ok \in BOOLEAN : FileOperation(r, ok)
  \/ \E r \in RunIds : Timer(r)

\* the clients and the first run of one workflow, where every child process
\* ends and every due callback is run
SpecRequestsFair ==
  Init /\ [][NextRequests]_vars /\ WF_vars(PipelineSteps)

\* ------------------------------------------- ECR push (routes/ecr.js)
\* spawnSync(...).status: the exit code, or null when docker could not be
\* started or was ended by a signal
NoStatus == 0 - 1
SpawnStatuses == {0, 1, NoStatus}

\* GetAuthorizationToken: data with a token, no data, or a rejection
AuthOutcomes == {"token", "empty", "throws"}

\* req.body.operationId in the catch block: validateECRPushRequest has
\* replaced req.body by the validated value with unknown keys stripped, and
\* operationId is not a key of the schema
BodyOperationId == Null

EcrLogEvent(op, message, level) ==
  [ name |-> "ecr-log", operationId |-> op, message |-> message,
    level |-> level ]

\* what a segment of the push handler works on: the Map, the id of its
\* operation, the events it emits, the commands it runs, its response
PushCtx(op, ops) ==
  [ id |-> op, ops |-> ops, io |-> << >>, spawned |-> << >>,
    res |-> NoResponse ]

\* lines 118-127: append to the logs of the operation and io.emit
emitLog(c, message, level) ==
  [ c EXCEPT
      !.ops[c.id].logs = Append(@, [ message |-> message, level |-> level ]),
      !.io = Append(@, EcrLogEvent(c.id, message, level)) ]

spawnSync(c, command, status) ==
  [ c EXCEPT !.spawned = Append(@, [ command |-> command,
                                      status |-> status ]) ]

\* a check that takes a docker command for successful unless it exited 1
CommandFailedOnOne(status) == status = 1

\* loginResult.status !== 0 (and the same for tag and push)
CommandFailed(status) == status # 0

\* lines 220-233: the catch block of the push handler
PushCatch(c, message) ==
  LET marked ==
        IF BodyOperationId # Null /\ BodyOperationId \in DOMAIN c.ops
          THEN [ c EXCEPT !.ops[BodyOperationId].status = "failed",
                          !.ops[BodyOperationId].error = message ]
          ELSE c
  IN [ marked EXCEPT
         !.ops[c.id].pc = "done",
         !.res = [ code |-> 500, operationId |-> Null, status |-> Null,
                   message |-> message ] ]

\* lines 205-218
PushCompleted(c) ==
  LET logged == emitLog([ c EXCEPT !.ops[c.id].status = "completed" ],
                        "Image pushed successfully", "info")
  IN [ logged EXCEPT
         !.ops[c.id].pc = "done",
         !.res = [ code |-> 200, operationId |-> c.id,
                   status |-> "completed", message |-> Null ] ]

\* lines 189-203
PushDockerPush(c, push) ==
  LET ran == spawnSync(emitLog([ c EXCEPT !.ops[c.id].status = "pushing" ],
                               "Pushing image to ECR", "info"),
                       "push", push)
  IN IF CommandFailed(push)
       THEN PushCatch(emitLog(ran, "Docker push failed", "error"),
                      "Docker push failed")
       ELSE PushCompleted(ran)

\* lines 171-187
PushDockerTag(c, tag, push) ==
  LET ran == spawnSync(emitLog([ c EXCEPT !.ops[c.id].status = "tagging" ],
                               "Tagging image", "info"),
                       "tag", tag)
  IN IF CommandFailed(tag)
       THEN PushCatch(emitLog(ran, "Docker tag failed", "error"),
                      "Docker tag failed")
       ELSE PushDockerPush(emitLog(ran, "Image tagged successfully", "info"),
                           push)

\* lines 152-169
PushDockerLogin(c, login, tag, push) ==
  LET ran ==
        spawnSync(
          emitLog(emitLog([ c EXCEPT !.ops[c.id].status = "authenticating" ],
                          "ECR authentication successful", "info"),
                  "Logging into ECR registry", "info"),
          "login", login)
  IN IF CommandFailed(login)
       THEN PushCatch(emitLog(ran, "Docker login failed", "error"),
                      "Docker login failed")
       ELSE PushDockerTag(emitLog(ran, "Docker login successful", "info"),
                          tag, push)

\* lines 141-145 onwards: the handler after the await of the token
PushAfterAuthorization(c, auth, login, tag, push) ==
  IF auth = "throws" THEN PushCatch(c, "GetAuthorizationToken failed")
  ELSE IF auth = "empty"
    THEN PushCatch(c, "Failed to get ECR authorization token")
  ELSE PushDockerLogin(c, login, tag, push)

PushWrites(c) ==
  /\ activeECROperations' = c.ops
  /\ io' = c.io
  /\ res' = c.res
  /\ spawned' = c.spawned
  /\ UNCHANGED <<activeDeployments, runs, host, rooms, terraformSessions,
                 activeBuilds>>

\* router.post('/push-image') up to the await of ecrClient.send: the
\* operation is stored and the first log is emitted
PushImageBegin ==
  /\ ServerUp
  /\ Len(activeECROperations) < MaxOperations
  /\ LET op == Len(activeECROperations) + 1
     IN PushWrites(
          emitLog(PushCtx(op, Append(activeECROperations,
                                     [ status |-> "authenticating",
                                       error |-> Null, logs |-> << >>,
                                       pc |-> "authorization" ])),
                  "Starting ECR push", "info"))

\* validateECRPushRequest answers 400 to a body that does not fit the schema
PushImageRejected ==
  /\ ServerUp
  /\ res' = [ code |-> 400, operationId |-> Null, status |-> Null,
              message |-> "Validation failed" ]
  /\ io' = << >>
  /\ spawned' = << >>
  /\ UNCHANGED <<activeDeployments, runs, host, rooms, terraformSessions,
                 activeECROperations, activeBuilds>>

\* the rest of the handler, once the authorization request has settled:
\* the three docker commands run synchronously, one after the other
PushImageEnd(op, auth, login, tag, push) ==
  /\ ServerUp
  /\ op \in DOMAIN activeECROperations
  /\ activeECROperations[op].pc = "authorization"
  /\ PushWrites(PushAfterAuthorization(PushCtx(op, activeECROperations),
                                       auth, login, tag, push))

\* router.get('/operation-status/:operationId')
OperationStatus(op) ==
  /\ ServerUp
  /\ res' = IF op \in DOMAIN activeECROperations
              THEN [ code |-> 200, operationId |-> op,
                     status |-> activeECROperations[op].status,
                     message |-> activeECROperations[op].error ]
              ELSE [ code |-> 404, operationId |-> Null, status |-> Null,
                     message |-> "Operation not found" ]
  /\ io' = << >>
  /\ spawned' = << >>
  /\ UNCHANGED <<activeDeployments, runs, host, rooms, terraformSessions,
                 activeECROperations, activeBuilds>>

OperationRequestIds == 1..(MaxOperations + 1)

NextPush ==
  \/ PushImageBegin
  \/ PushImageRejected
  \/ \E op \in 1..MaxOperations, auth \in AuthOutcomes,
        login \in SpawnStatuses, tag \in SpawnStatuses,
        push \in SpawnStatuses : PushImageEnd(op, auth, login, tag, push)
  \/ \E op \in OperationRequestIds : OperationStatus(op)

SpecPush == Init /\ [][NextPush]_vars

\* --------------------------------------- docker build (routes/docker.js)
\* req.body.buildId in the catch block: validateDockerBuildRequest has
\* stripped it, buildId is not a key of the schema
BodyBuildId == Null

BuildLogEvent(b, message, level) ==
  [ name |-> "docker-build-log", buildId |-> b, message |-> message,
    level |-> level ]

\* the temporary directory of the build b
BuildDir(b) == [ owner |-> b, kind |-> "build", name |-> 1, exists |-> TRUE ]

\* tmpDir.removeCallback()
RemoveBuildDir(dirs, b) ==
  { IF x = BuildDir(b) THEN [ x EXCEPT !.exists = FALSE ] ELSE x : x \in dirs }

BuildResponse(code, b, status, message) ==
  [ code |-> code, buildId |-> b, status |-> status, message |-> message ]

\* a segment of the build handler that goes on: the record it leaves and
\* the events it emits
BuildGoesOn(b, record, events) ==
  /\ activeBuilds' = [ activeBuilds EXCEPT ![b] = record ]
  /\ io' = events
  /\ res' = NoResponse
  /\ spawned' = << >>
  /\ UNCHANGED <<activeDeployments, runs, host, rooms, terraformSessions,
                 activeECROperations>>

\* lines 239-258: an error inside the inner try removes the directory and
\* is thrown on to the catch block of the handler, which looks for the
\* build under req.body.buildId and answers 500
BuildThrows(b, record, message) ==
  /\ activeBuilds' =
       LET ended == [ activeBuilds EXCEPT ![b] = [ record EXCEPT
                                                     !.pc = "done" ] ]
       IN IF BodyBuildId # Null /\ BodyBuildId \in DOMAIN activeBuilds
            THEN [ ended EXCEPT ![BodyBuildId].status = "failed",
                                ![BodyBuildId].error = message ]
            ELSE ended
  /\ tmpDirs' = RemoveBuildDir(tmpDirs, b)
  /\ io' = << >>
  /\ res' = BuildResponse(500, Null, Null, message)
  /\ spawned' = << >>
  /\ UNCHANGED <<activeDeployments, runs, processEnv, rooms,
                 terraformSessions, activeECROperations>>

BuildAt(b, pc) ==
  /\ ServerUp
  /\ b \in DOMAIN activeBuilds
  /\ activeBuilds[b].pc = pc

\* router.post('/build') up to the await of git.clone
BuildBegin ==
  /\ ServerUp
  /\ Len(activeBuilds) < MaxBuilds
  /\ LET b == Len(activeBuilds) + 1
     IN /\ activeBuilds' =
             Append(activeBuilds,
                    [ status |-> "cloning", error |-> Null,
                      logs |-> << "Starting Docker build" >>,
                      pc |-> "clone" ])
        /\ io' = << BuildLogEvent(b, "Starting Docker build", "info") >>
        /\ tmpDirs' = tmpDirs \cup {BuildDir(b)}
  /\ res' = NoResponse
  /\ spawned' = << >>
  /\ UNCHANGED <<activeDeployments, runs, processEnv, rooms,
                 terraformSessions, activeECROperations>>

\* lines 41-60: the body does not fit the schema, or the URL is not one of
\* a GitHub repository
BuildRejected ==
  /\ ServerUp
  /\ res' = BuildResponse(400, Null, Null, "Invalid GitHub repository URL")
  /\ io' = << >>
  /\ spawned' = << >>
  /\ UNCHANGED <<activeDeployments, runs, host, rooms, terraformSessions,
                 activeECROperations, activeBuilds>>

\* lines 114-118: git.clone has settled
BuildCloneSettled(b, ok) ==
  /\ BuildAt(b, "clone")
  /\ IF ok
       THEN /\ BuildGoesOn(b,
                           [ activeBuilds[b] EXCEPT
                               !.status = "building",
                               !.logs = Append(@, "Repository cloned"),
                               !.pc = "access" ],
                           << BuildLogEvent(b, "Repository cloned",
                                            "info") >>)
       ELSE BuildThrows(b, activeBuilds[b], "git clone failed")

\* lines 120-145: fs.access of the Dockerfile has settled
BuildAccessSettled(b, found) ==
  /\ BuildAt(b, "access")
  /\ IF found
       THEN BuildGoesOn(b, [ activeBuilds[b] EXCEPT !.pc = "buildImage" ],
                        << >>)
       ELSE BuildThrows(b, activeBuilds[b],
                        "No Dockerfile found in repository root")

\* lines 145-151: docker.buildImage has settled
BuildImageSettled(b, ok) ==
  /\ BuildAt(b, "buildImage")
  /\ IF ok
       THEN BuildGoesOn(b, [ activeBuilds[b] EXCEPT !.pc = "follow" ], << >>)
       ELSE BuildThrows(b, activeBuilds[b], "docker.buildImage failed")

\* lines 151-163 and 187: the callback of followProgress and the await of
\* buildPromise
BuildFollowed(b, err) ==
  /\ BuildAt(b, "follow")
  /\ IF err
       THEN BuildThrows(b, [ activeBuilds[b] EXCEPT
                               !.status = "failed",
                               !.error = "build failed" ],
                        "build failed")
       ELSE BuildGoesOn(b, [ activeBuilds[b] EXCEPT
                               !.status = "completed",
                               !.logs = Append(@, "build output"),
                               !.pc = "inspect" ],
                        << >>)

\* lines 189-238: the image is looked up (by name, or the newest dangling
\* image is tagged); none of these awaits writes the record
InspectOutcomes == {"found", "none", "throws"}

BuildInspected(b, outcome) ==
  /\ BuildAt(b, "inspect")
  /\ IF outcome = "found"
       THEN /\ activeBuilds' = [ activeBuilds EXCEPT ![b].pc = "done" ]
            /\ tmpDirs' = RemoveBuildDir(tmpDirs, b)
            /\ io' = << >>
            /\ res' = BuildResponse(200, b, "completed", Null)
            /\ spawned' = << >>
            /\ UNCHANGED <<activeDeployments, runs, processEnv, rooms,
                           terraformSessions, activeECROperations>>
       ELSE BuildThrows(b, activeBuilds[b], "No image found")

\* router.get('/build-status/:buildId')
BuildStatus(b) ==
  /\ ServerUp
  /\ res' = IF b \in DOMAIN activeBuilds
              THEN BuildResponse(200, b, activeBuilds[b].status,
                                 activeBuilds[b].error)
              ELSE BuildResponse(404, Null, Null, "Build not found")
  /\ io' = << >>
  /\ spawned' = << >>
  /\ UNCHANGED <<activeDeployments, runs, host, rooms, terraformSessions,
                 activeECROperations, activeBuilds>>

\* the image routes together
NextImages ==
  \/ NextPush
  \/ BuildBegin
  \/ BuildRejected
  \/ \E b \in 1..MaxBuilds, ok \in BOOLEAN : BuildCloneSettled(b, ok)
  \/ \E b \in 1..MaxBuilds, found \in BOOLEAN : BuildAccessSettled(b, found)
  \/ \E b \in 1..MaxBuilds, ok \in BOOLEAN : BuildImageSettled(b, ok)
  \/ \E b \in 1..MaxBuilds, err \in BOOLEAN : BuildFollowed(b, err)
  \/ \E b \in 1..MaxBuilds, outcome \in InspectOutcomes :
       BuildInspected(b, outcome)
  \/ \E b \in 1..(MaxBuilds + 1) : BuildStatus(b)

SpecImages == Init /\ [][NextImages]_vars

\* one workflow driven by its first run, and a client that reads pages of
\* its log
NextLogs ==
  \/ \E body \in RequestBodies : Start(body)
  \/ \E d \in DeploymentIds, offset \in OffsetParams, limit \in LimitParams :
       LogsPage(d, offset, limit)
  \/ \E r \in RunIds, code \in ExitCodes : ProcessExit(r, code)
  \/ \E r \in RunIds, stream \in Streams : GitData(r, stream)
  \/ \E r \in RunIds : GitClose(r)
  \/ \E r \in RunIds : TerraformClose(r)
  \/ \E r \in RunIds : ImportClose(r)
  \/ \E r \in RunIds, found \in BOOLEAN : DockerfileAccess(r, found)
  \/ \E r \in RunIds, outcome \in HttpOutcomes : HttpResponse(r, outcome)
  \/ \E r \in RunIds, ok \in BOOLEAN : FileOperation(r, ok)
  \/ \E r \in RunIds : Timer(r)

SpecLogs == Init /\ [][NextLogs]_vars

\* the terraform sessions of routes/github.js and their clients
NextSessions ==
  \/ SessionInitBegin
  \/ \E s \in SessionIds, ok \in BOOLEAN : SessionInitEnd(s, ok)
  \/ \E s \in SessionRequestIds, command \in SessionCommands,
        wouldExit \in SessionExitCodes, fate \in Fates :
       SessionTerraform(s, command, wouldExit, fate)
  \/ \E s \in SessionRequestIds : SessionStatus(s)
  \/ \E s \in SessionRequestIds : SessionCancel(s)
  \/ \E s \in SessionIds, outcome \in CleanupOutcomes :
       SessionCleanup(s, outcome)
  \/ \E s \in SessionRequestIds : SessionCleanupUnknown(s)

SpecSessions == Init /\ [][NextSessions]_vars

\* two workflows submitted one after the other, each driven by its own run
\* while the other is under way
NextPair ==
  \/ \E body \in RequestBodies : StartOfPair(body)
  \/ \E r \in RunIds, code \in ExitCodes : ProcessExit(r, code)
  \/ \E r \in RunIds : SpawnError(r)
  \/ \E r \in RunIds : GitClose(r)
  \/ \E r \in RunIds, kind \in StdoutKinds : TerraformStdout(r, kind)
  \/ \E r \in RunIds, kind \in StderrKinds : TerraformStderr(r, kind)
  \/ \E r \in RunIds : TerraformClose(r)
  \/ \E r \in RunIds : TerraformError(r)
  \/ \E r \in RunIds : ImportClose(r)
  \/ \E r \in RunIds, found \in BOOLEAN : DockerfileAccess(r, found)
  \/ \E r \in RunIds, outcome \in HttpOutcomes : HttpResponse(r, outcome)
  \/ \E r \in RunIds, ok \in BOOLEAN : FileOperation(r, ok)
  \/ \E r \in RunIds : Timer(r)

SpecPair == Init /\ [][NextPair]_vars

\* one workflow driven by its first run, watched by socket clients that
\* join, leave and poll the snapshot endpoints
NextObservers ==
  \/ \E body \in RequestBodies : Start(body)
  \/ \E o \in Observers, d \in RequestIds : Join(o, d)
  \/ \E o \in Observers : Disconnect(o)
  \/ \E d \in RequestIds : Cancel(d)
  \/ \E d \in RequestIds : Status(d)
  \/ \E d \in RequestIds : Logs(d)
  \/ \E r \in RunIds, code \in ExitCodes : ProcessExit(r, code)
  \/ \E r \in RunIds : SpawnError(r)
  \/ \E r \in RunIds, stream \in Streams : GitData(r, stream)
  \/ \E r \in RunIds : GitClose(r)
  \/ \E r \in RunIds, kind \in StdoutKinds : TerraformStdout(r, kind)
  \/ \E r \in RunIds, kind \in StderrKinds : TerraformStderr(r, kind)
  \/ \E r \in RunIds : TerraformClose(r)
  \/ \E r \in RunIds : TerraformError(r)
  \/ \E r \in RunIds : ImportClose(r)
  \/ \E r \in RunIds, found \in BOOLEAN : DockerfileAccess(r, found)
  \/ \E r \in RunIds, outcome \in HttpOutcomes : HttpResponse(r, outcome)
  \/ \E r \in RunIds, ok \in BOOLEAN : FileOperation(r, ok)
  \/ \E r \in RunIds : Timer(r)

SpecObservers == Init /\ [][NextObservers]_vars

\* ------------------------------------------------------------- properties
\* vocabulary of the properties below
StepStatus(dep, stepId) == dep.steps[StageIndex(stepId)].status

\* the stage whose try block of processDeployment holds the await pc
StageOf(pc) ==
  IF pc = "clone" THEN "clone"
  ELSE IF pc \in {"dockerfile", "build"} THEN "build"
  ELSE IF pc = "ecr" THEN "ecr-setup"
  ELSE IF pc \in {"auth", "push"} THEN "push"
  ELSE IF pc \in {"cp", "tfvars", "backend", "init"} THEN "terraform-init"
  ELSE IF pc = "plan" THEN "terraform-plan"
  ELSE IF pc \in {"destroy", "apply", "output"} \cup ImportCmds
    THEN "terraform-apply"
  ELSE pc

TerminalStatuses == {"completed", "failed", "cancelled"}

\* positions of the events of the given names that a step emitted for d
EventsOf(events, d, names) ==
  { i \in 1..Len(events) :
      events[i].deploymentId = d /\ events[i].name \in names }

\* the error-level entries of a log
ErrorLogs(logs) ==
  BagCardinality([ e \in { x \in BagToSet(logs) : x.level = "error" }
                     |-> logs[e] ])

\* the run r ends by a failure in this step
RunFails(r) ==
  /\ r \in DOMAIN runs
  /\ runs[r].state = "active"
  /\ runs'[r].state = "failed"

\* the run r handles the 'close' event of the terraform process of pc
ClosesTerraform(r, pc) ==
  /\ r \in DOMAIN runs
  /\ runs[r].state = "active"
  /\ runs[r].pc = pc
  /\ runs[r].proc.state = "exited"
  /\ runs'[r] # runs[r]

\* C1: once the status of a workflow is completed, failed or cancelled, no
\* step emits a step-update or a log line for it and none of its stage
\* records changes, whatever request or process event the step handles.
C1_TerminalExclusivity ==
  [][ \A d \in DOMAIN activeDeployments :
        activeDeployments[d].status \in TerminalStatuses =>
          /\ EventsOf(io', d, {"step-update", "deployment-log",
                               "realTimeLog"}) = {}
          /\ activeDeployments'[d].steps = activeDeployments[d].steps ]_vars

\* C2: while terraform-apply is running on a cancelled workflow, every step
\* of the pipeline leaves the status cancelled and emits no
\* deployment-completed event for it.
C2_CancelDuringApplyStays ==
  [][ \A d \in DOMAIN activeDeployments :
        ( /\ activeDeployments[d].status = "cancelled"
          /\ StepStatus(activeDeployments[d], "terraform-apply") = "running"
          /\ Len(runs') = Len(runs) ) =>
          /\ activeDeployments'[d].status = "cancelled"
          /\ EventsOf(io', d, {"deployment-completed"}) = {} ]_vars

\* C3: the step that handles Cancel for a workflow signals every child
\* process that one of the workflow's runs has in flight.
C3_CancelSignalsProcess ==
  [][ \A d \in DOMAIN activeDeployments :
        EventsOf(io', d, {"deployment-cancelled"}) # {} =>
          \A r \in DOMAIN runs :
            ( /\ runs[r].dep = d
              /\ runs[r].state = "active"
              /\ runs[r].proc.state = "running" ) =>
              runs'[r].proc.killed ]_vars

C5_FailingStageMarkedFailed ==
  [][ \A r \in DOMAIN runs :
        RunFails(r) =>
          LET d == runs[r].dep
              stage == StageOf(runs[r].pc)
          IN /\ StepStatus(activeDeployments'[d], stage) = "failed"
             /\ \E i \in EventsOf(io', d, {"step-update"}) :
                  io'[i].stepId = stage /\ io'[i].status = "failed"
             /\ \A i \in 1..Len(StageIds) :
                  activeDeployments'[d].steps[i].status # "running" ]_vars

\* what the step in which the run r fails does, with the status it leaves
\* and the number of error-level log lines it appends
FailureReport(r, status, errorLines) ==
  LET d == runs[r].dep
      failed == EventsOf(io', d, {"deployment-failed"})
      errors == { i \in EventsOf(io', d, {"deployment-log"}) :
                    io'[i].level = "error" }
  IN /\ activeDeployments'[d].status = status
     /\ activeDeployments'[d].error # NoMessage
     /\ ErrorLogs(activeDeployments'[d].logs) =
          ErrorLogs(activeDeployments[d].logs) + errorLines
     /\ Cardinality(errors) = errorLines
     /\ Cardinality(failed) = 1
     /\ \A i \in failed :
          /\ io'[i].message = activeDeployments'[d].error
          /\ \A j \in errors : j < i

C8_PrebuiltSubmissionIntact ==
  [][ \A body \in RequestBodies :
        ( "ecrImageUri" \in body.repository /\ Start(body) ) =>
          /\ UsesPrebuiltImage(activeDeployments'[Len(activeDeployments')])
          /\ runs'[Len(runs')].proc.cmd # "git" ]_vars

\* C9: terraform apply closing with code 1 and "already exists" on stderr
\* lets the run go on to terraform output; closing with code 1 without it
\* ends the stage failed and the workflow failed.
C9_ApplyTolerance ==
  [][ \A r \in DOMAIN runs :
        ( /\ ClosesTerraform(r, "apply")
          /\ runs[r].proc.code = 1 ) =>
          IF runs[r].proc.stderrAlreadyExists
            THEN runs'[r].state = "active" /\ runs'[r].pc = "output"
            ELSE /\ runs'[r].state = "failed"
                 /\ activeDeployments'[runs[r].dep].status = "failed"
                 /\ StepStatus(activeDeployments'[runs[r].dep],
                               "terraform-apply") = "failed" ]_vars

\* C10: terraform init, plan or destroy closing with a non-zero code fails
\* the run, whatever was written to stderr.
C10_ToleranceOnlyForApply ==
  [][ \A r \in DOMAIN runs, pc \in {"init", "plan", "destroy"} :
        ( /\ ClosesTerraform(r, pc)
          /\ runs[r].proc.code # 0 ) =>
          runs'[r].state = "failed" ]_vars

\* the import command after pc, or terraform apply after the last one
AfterImport(pc) ==
  IF pc = "import1" THEN "import2"
  ELSE IF pc = "import2" THEN "import3" ELSE "apply"

\* C11: whatever an import command does, the step that ends it leaves the
\* run active at the next import command, or at terraform apply after the
\* last one.
C11_ImportNeverAborts ==
  [][ \A r \in DOMAIN runs :
        ( /\ runs[r].state = "active"
          /\ runs[r].pc \in ImportCmds
          /\ (runs'[r].pc # runs[r].pc \/ runs'[r].state # "active") ) =>
          /\ runs'[r].state = "active"
          /\ runs'[r].pc = AfterImport(runs[r].pc)
          /\ runs'[r].proc.cmd = AfterImport(runs[r].pc) ]_vars

AppStages == {"kubectl-config", "deploy-app", "verify"}

\* C12: a run started by /destroy is never at terraform apply, at an import
\* or at an application stage; a run that leaves terraform-plan in destroy
\* mode spawns terraform destroy; and a step of a run that was started by
\* /destroy or is at terraform destroy emits no step-update for kubectl-config, deploy-app or verify,
\* leaves their records alone and, when destroy resolves, completes the
\* workflow at once with deployment-completed{isDestroy}.
C12_DestroyRunSkipsAppStages ==
  [][ \A r \in DOMAIN runs' :
        /\ runs'[r].handler = "destroy" =>
             runs'[r].pc \notin {"apply", "output"} \cup ImportCmds
                               \cup AppStages
        /\ ( /\ r \in DOMAIN runs
             /\ runs[r].state = "active"
             /\ runs[r].pc = "plan"
             /\ runs'[r].state = "active"
             /\ runs'[r].pc # "plan"
             /\ activeDeployments[runs[r].dep].config.destroy_mode ) =>
             runs'[r].pc = "destroy" /\ runs'[r].proc.cmd = "destroy"
        /\ ( /\ r \in DOMAIN runs
             /\ runs[r].state = "active"
             /\ (runs[r].pc = "destroy" \/ runs[r].handler = "destroy")
             /\ runs'[r] # runs[r]
             /\ runs'[r].state # "crashed" ) =>
             LET d == runs[r].dep
             IN /\ runs[r].pc = "destroy" => runs'[r].pc = "destroy"
                /\ \A i \in EventsOf(io', d, {"step-update"}) :
                     io'[i].stepId \notin AppStages
                /\ \A stepId \in AppStages :
                     StepStatus(activeDeployments'[d], stepId) =
                       StepStatus(activeDeployments[d], stepId)
                /\ ( /\ runs[r].pc = "destroy"
                     /\ runs[r].proc.state = "exited"
                     /\ runs[r].proc.code = 0 ) =>
                     /\ runs'[r].state = "done"
                     /\ activeDeployments'[d].status = "completed"
                     /\ \E i \in EventsOf(io', d, {"deployment-completed"}) :
                          io'[i].isDestroy ]_vars

\* a destroy run has just completed a workflow whose application stages
\* were never started
C12_Witness ==
  \E r \in DOMAIN runs :
    /\ runs[r].state = "done"
    /\ runs[r].pc = "destroy"
    /\ EventsOf(io, runs[r].dep, {"deployment-completed"}) # {}
    /\ \A stepId \in AppStages :
         StepStatus(activeDeployments[runs[r].dep], stepId) = "pending"

\* the step handles /destroy for the existing workflow d
DestroysCompleted(d) ==
  /\ activeDeployments[d].status = "completed"
  /\ Len(runs') = Len(runs) + 1
  /\ runs'[Len(runs')].dep = d
  /\ runs'[Len(runs')].handler = "destroy"

\* C13: once /destroy has been handled for a completed workflow, its step
\* list holds no kubectl-config, deploy-app or verify stage.
C13_DestroyStepListWithoutAppStages ==
  [][ \A d \in DOMAIN activeDeployments :
        DestroysCompleted(d) =>
          \A i \in DOMAIN activeDeployments'[d].steps :
            activeDeployments'[d].steps[i].id \notin AppStages ]_vars

\* C14: once /destroy has been handled for a completed workflow, the stored
\* status is destroying, and the run it started never spawns terraform
\* apply.
C14_DestroyingObservable ==
  [][ /\ \A d \in DOMAIN activeDeployments :
           DestroysCompleted(d) =>
             activeDeployments'[d].status = "destroying"
      /\ \A r \in DOMAIN runs' :
           runs'[r].handler = "destroy" => runs'[r].proc.cmd # "apply" ]_vars

\* C16: the response to an accepted submission reports the status
\* initializing and ten stages, all pending.
C16_SubmitReportsInitializing ==
  [][ Len(activeDeployments') = Len(activeDeployments) + 1 =>
        /\ res'.code = 200
        /\ res'.status = "initializing"
        /\ Len(res'.steps) = Len(StageIds)
        /\ \A i \in DOMAIN res'.steps : res'.steps[i].status = "pending"
    ]_vars

\* C15: a destroy, cancel, status or logs request that names an unknown id
\* is answered 404, leaves the workflow table and the runs unchanged and
\* emits nothing; no step is the handling of /destroy or /cancel for a
\* known workflow under that id.
C15_UnknownIdNotFound ==
  [][ \A d \in RequestIds \ DOMAIN activeDeployments :
        /\ ( DestroyUnknown(d) \/ CancelUnknown(d) \/ Status(d) \/ Logs(d) )
             => /\ res'.code = 404
                /\ activeDeployments' = activeDeployments
                /\ runs' = runs
                /\ io' = << >>
        /\ ~Destroy(d)
        /\ ~Cancel(d) ]_vars

\* an unknown id was refused while a workflow is being driven
C15_Witness ==
  /\ res.code = 404
  /\ \E r \in DOMAIN runs :
       runs[r].state = "active" /\ runs[r].pc = "plan"

\* the body does not satisfy deploymentRequestSchema
Malformed(body) ==
  \/ body.rest # "valid"
  \/ ~(RequiredRepoKeys \subseteq body.repository)

\* C17: the submission of a malformed body is answered 400 with no workflow
\* id, leaves the workflow table and the runs unchanged and emits nothing.
C17_RejectedBeforeCreation ==
  [][ \A body \in RequestBodies :
        ( Malformed(body) /\ (Start(body) \/ StartRejected(body)) ) =>
          /\ res'.code = 400
          /\ res'.deploymentId = 0
          /\ activeDeployments' = activeDeployments
          /\ runs' = runs
          /\ io' = << >> ]_vars

\* a submission was refused while a workflow exists
C17_Witness ==
  /\ res.code = 400
  /\ Len(activeDeployments) = 1
  /\ Len(runs) = 1

\* the stored log of d in a workflow table
LogsOf(table, d) == IF d \in DOMAIN table THEN table[d].logs ELSE EmptyBag

\* how many events of that name a step published for the entry e of d
Published(events, d, name, e) ==
  Cardinality({ i \in 1..Len(events) :
                  [ events[i] EXCEPT !.entry = 0 ] =
                    LogEvent(name, d, e.message, e.level, e.stepId) })

\* C18: every step publishes each entry it appends to the log of a workflow
\* exactly once as deployment-log and exactly once as realTimeLog, and it
\* publishes no more log events of addLog than it appends entries.
C18_AppendedEntriesPublishedOnce ==
  [][ \A d \in DOMAIN activeDeployments' :
        LET before == LogsOf(activeDeployments, d)
            after == LogsOf(activeDeployments', d)
        IN after # before =>
             /\ \A name \in {"deployment-log", "realTimeLog"} :
                  Cardinality({ i \in EventsOf(io', d, {name}) :
                                  io'[i].type = Null }) =
                    BagCardinality(after) - BagCardinality(before)
             /\ \A e \in BagToSet(after) :
                  CopiesIn(e, after) # CopiesIn(e, before) =>
                    /\ Published(io', d, "deployment-log", e) =
                         CopiesIn(e, after) - CopiesIn(e, before)
                    /\ Published(io', d, "realTimeLog", e) =
                         CopiesIn(e, after) - CopiesIn(e, before) ]_vars

\* a step has just appended entries to the log and published them
C18_Witness ==
  \E d \in DOMAIN activeDeployments :
    \E e \in BagToSet(activeDeployments[d].logs) :
      /\ e.level = "error"
      /\ Published(io, d, "deployment-log", e) = 1

\* C19: every deployment-log event that a step publishes with a message has
\* an entry with that message in the stored log of its workflow.
C19_PublishedMessagesStored ==
  [][ \A i \in 1..Len(io') :
        ( /\ io'[i].name = "deployment-log"
          /\ io'[i].message # NoMessage ) =>
          \E e \in BagToSet(LogsOf(activeDeployments', io'[i].deploymentId)) :
            e.message = io'[i].message ]_vars

StepUpdates(events, d) ==
  SelectSeq(events,
            LAMBDA e : e.name = "step-update" /\ e.deploymentId = d)

\* the run r executes a segment of processDeployment in this step
Acts(r) ==
  /\ r \in DOMAIN runs'
  /\ \/ r \notin DOMAIN runs
     \/ /\ runs'[r] # runs[r]
        /\ runs'[r].state # "crashed"

\* the position in the pipeline of the stage the run r is in; a run that
\* is being started is before clone
StageAt(table, r) ==
  IF r \in DOMAIN table THEN StageIndex(StageOf(table[r].pc)) ELSE 1

PerStageTerminal == {"completed", "failed", "skipped"}

\* C22: the step-update events of one run follow the pipeline order: within
\* a segment the stages never go back, a stage is not reported again once
\* it was reported terminal, every stage other than the one the run is in
\* is announced only after a terminal step-update of its predecessor, and
\* a run that moves on to another stage has announced it as running last.
C22_StepUpdatesInPipelineOrder ==
  [][ \A r \in RunIds : Acts(r) =>
        LET d == runs'[r].dep
            U == StepUpdates(io', d)
            cur == StageAt(runs, r)
        IN /\ \A i \in 1..Len(U) :
                LET k == StageIndex(U[i].stepId)
                IN /\ k >= cur
                   /\ i > 1 =>
                        /\ StageIndex(U[i-1].stepId) <= k
                        /\ U[i-1].stepId = U[i].stepId =>
                             U[i-1].status \notin PerStageTerminal
                   /\ k # cur =>
                        \E j \in 1..(i-1) :
                          /\ U[j].stepId = StageIds[k-1]
                          /\ U[j].status \in PerStageTerminal
           /\ ( /\ runs'[r].state = "active"
                /\ StageAt(runs', r) # cur \/ r \notin DOMAIN runs )
                => /\ Len(U) > 0
                   /\ U[Len(U)] = StepUpdateEvent(d,
                                    StageIds[StageAt(runs', r)], "running")
    ]_vars

\* a segment has reported clone completed and then build running
C22_Witness ==
  \E i, j \in 1..Len(io) :
    /\ i < j
    /\ io[i] = StepUpdateEvent(1, "clone", "completed")
    /\ io[j] = StepUpdateEvent(1, "build", "running")

\* the stages of d that are running, and the runs that drive d
RunningStages(d) ==
  { i \in 1..Len(StageIds) : activeDeployments[d].steps[i].status = "running" }

ActiveRuns(d) ==
  { r \in DOMAIN runs : runs[r].dep = d /\ runs[r].state = "active" }

\* C23: in every reachable state at most one stage of a workflow is running
\* and at most one run of processDeployment drives the workflow.
C23_OneStageOneRun ==
  \A d \in DOMAIN activeDeployments :
    /\ Cardinality(RunningStages(d)) <= 1
    /\ Cardinality(ActiveRuns(d)) <= 1

\* the run r ends in this step
RunEnds(r) ==
  /\ r \in DOMAIN runs
  /\ runs[r].state = "active"
  /\ runs'[r].state \in {"done", "failed"}

\* C28: a run that fails or that ran in destroy mode leaves its workflow
\* without outputs and without a deployment URL, and the
\* deployment-completed event of a destroy run carries no deployment URL.
C28_OutputsOnlyAfterApply ==
  [][ \A r \in DOMAIN runs :
        ( /\ RunEnds(r)
          /\ \/ runs'[r].state = "failed"
             \/ runs[r].pc = "destroy" )
        => /\ activeDeployments'[runs[r].dep].terraformOutputs = Null
           /\ activeDeployments'[runs[r].dep].deploymentUrl = Null
           /\ \A i \in EventsOf(io', runs[r].dep, {"deployment-completed"}) :
                io'[i].deploymentUrl = Null
    ]_vars

\* C29: in every reachable state a workflow whose error field is set has
\* the status failed.
C29_ErrorOnlyWhenFailed ==
  \A d \in DOMAIN activeDeployments :
    activeDeployments[d].error # NoMessage =>
      activeDeployments[d].status = "failed"

InSnapshot(table, e) ==
  LET dep == table[e.deploymentId]
  IN IF e.name = "step-update" THEN StepStatus(dep, e.stepId) = e.status
     ELSE IF e.name \in {"deployment-log", "realTimeLog"}
       THEN \E x \in BagToSet(dep.logs) : x.message = e.message
     ELSE IF e.name = "deployment-failed" THEN dep.error = e.message
     ELSE IF e.name = "deployment-completed" THEN dep.status = "completed"
     ELSE dep.status = "cancelled"

\* C21: a socket is sent nothing by the step in which it joins a room, it
\* is sent every event of a workflow that is emitted while it is in the
\* room, in the order of emission, and every event emitted while it is not
\* in the room is served by the snapshot endpoints afterwards.
C21_LateJoin ==
  [][ \A o \in Observers :
        /\ (\E d \in DOMAIN rooms : o \in rooms'[d] \ rooms[d])
             => Delivered(o)' = << >>
        /\ \A d \in DOMAIN rooms :
             /\ o \in rooms[d] \cap rooms'[d] =>
                  SelectSeq(Delivered(o)', LAMBDA e : e.deploymentId = d)
                    = SelectSeq(io', LAMBDA e : e.deploymentId = d)
             /\ o \notin rooms'[d] =>
                  \A i \in 1..Len(io') :
                    io'[i].deploymentId = d =>
                      InSnapshot(activeDeployments', io'[i])
    ]_vars

\* the run r handles the 'close' event of its process in this step
HandlesClose(r) ==
  /\ r \in DOMAIN runs
  /\ runs[r].state = "active"
  /\ runs[r].proc.state = "exited"
  /\ runs'[r] # runs[r]
  /\ runs'[r].state # "crashed"

\* git must exit 0 and a terraform command must be accepted by
\* executeTerraform; a failure of terraform output is caught in place
ExitAccepted(r) ==
  \/ runs[r].pc = "output"
  \/ runs[r].pc \in ImportCmds
  \/ runs[r].pc = "clone" /\ runs[r].proc.code = 0
  \/ /\ runs[r].pc \in TerraformPcs
     /\ closeResolves(runs[r].pc, runs[r].proc.code,
                      runs[r].proc.stderrAlreadyExists)

C25_OwnCredentials ==
  \A r \in DOMAIN runs :
    ( /\ runs[r].proc.cmd \in TerraformCmds
      /\ runs[r].proc.state \in {"running", "exited"} )
    => runs[r].proc.env = runs[r].dep

\* the scratch directories of the workflow d that are on disk
ScratchDirs(d) ==
  { x \in tmpDirs :
      x.owner = d /\ x.kind \in {"repository", "terraform"} /\ x.exists }

\* C26: once a workflow has a terminal status, its clone directory and its
\* terraform working directory are eventually deleted.
C26_ScratchDirsDeleted ==
  \A d \in DeploymentIds :
    (Known(d) /\ activeDeployments[d].status \in TerminalStatuses)
      ~> (ScratchDirs(d) = {})

\* the cleanup route calls deployment.cleanup() of the stored session s in
\* this step, for the first time
FirstCleanup(s) ==
  /\ InMap(s)
  /\ ~terraformSessions[s].cleanupCalled
  /\ terraformSessions'[s].cleanupCalled

\* C27: the cleanup of a stored session kills its processes, runs the
\* directory cleanup, removes the entry from the table and answers with
\* success, also when the directory cleanup fails.
C27_CleanupRemovesEntry ==
  [][ \A s \in SessionIds : FirstCleanup(s) =>
        /\ \A i \in DOMAIN terraformSessions'[s].processes :
             terraformSessions'[s].processes[i].killed
        /\ terraformSessions'[s].phase = "deleted"
        /\ res'.code = 200
    ]_vars

\* the ids of the stage list of a record, in order
StageList(dep) == [ i \in DOMAIN dep.steps |-> dep.steps[i].id ]

\* C31: the stage list of a workflow is the fixed list of ten stages when
\* the workflow is created, and no step (pipeline segment, Cancel, Destroy,
\* snapshot read) adds, removes, renames or reorders a stage.
C31_StageListFixed ==
  [][ \A d \in DOMAIN activeDeployments' :
        StageList(activeDeployments'[d]) =
          IF d \in DOMAIN activeDeployments
            THEN StageList(activeDeployments[d])
            ELSE StageIds
    ]_vars

\* a cancelled workflow with a finished clone stage that a destroy run
\* drives again
C31_Witness ==
  \E d \in DOMAIN activeDeployments :
    /\ activeDeployments[d].status = "cancelled"
    /\ StepStatus(activeDeployments[d], "build") = "running"
    /\ \E r \in DOMAIN runs : runs[r].dep = d /\ runs[r].handler = "destroy"

\* C32: no step changes the context (config) of an existing workflow, and
\* a run that /start began never runs terraform destroy.
C32_ContextImmutable ==
  [][ /\ \A d \in DOMAIN activeDeployments :
           activeDeployments'[d].config = activeDeployments[d].config
      /\ \A r \in DOMAIN runs :
           runs[r].handler = "start" => runs'[r].pc # "destroy"
    ]_vars

\* C33: every workflow eventually has a terminal status, when every child
\* process ends or fails to start and every due callback is run.
C33_EventuallyTerminal ==
  \A d \in DeploymentIds :
    Known(d) ~>
      (Known(d) /\ activeDeployments[d].status \in TerminalStatuses)

\* the run r waits for terraform output and its promise is about to be
\* rejected, or resolved with text that JSON.parse refuses
OutputsUnreadable(r) ==
  /\ r \in DOMAIN runs
  /\ runs[r].state = "active"
  /\ runs[r].pc = "output"
  /\ ~( /\ runs[r].proc.state = "exited"
        /\ closeResolves("output", runs[r].proc.code,
                         runs[r].proc.stderrAlreadyExists)
        /\ ParsesAsJson(runs[r].proc.stdout) )

\* C34: when terraform output cannot be read or parsed after a successful
\* apply, the segment that handles it reports terraform-apply completed,
\* logs a warning and no error, stores no outputs and goes on to
\* kubectl-config.
C34_OutputFailureTolerated ==
  [][ \A r \in RunIds :
        ( /\ OutputsUnreadable(r)
          /\ runs'[r].proc.state = "none"
          /\ runs'[r].state # "crashed" ) =>
          LET d == runs[r].dep
          IN /\ runs'[r].state = "active"
             /\ runs'[r].pc = "kubectl-config"
             /\ StepStatus(activeDeployments'[d], "terraform-apply")
                  = "completed"
             /\ StepUpdateEvent(d, "kubectl-config", "running")
                  \in { io'[i] : i \in 1..Len(io') }
             /\ \E i \in EventsOf(io', d, {"deployment-log"}) :
                  io'[i].level = "warn"
             /\ \A i \in EventsOf(io', d, {"deployment-log"}) :
                  io'[i].level # "error"
             /\ activeDeployments'[d].terraformOutputs
                  = activeDeployments[d].terraformOutputs
             /\ activeDeployments'[d].status = activeDeployments[d].status
    ]_vars

\* terraform output has exited with code 2 and the run is in kubectl-config
C34_Witness ==
  \E r \in DOMAIN runs :
    /\ runs[r].state = "active"
    /\ runs[r].pc = "kubectl-config"
    /\ activeDeployments[runs[r].dep].terraformOutputs = Null
    /\ \E i \in 1..Len(io) : io[i].level = "warn"

\* C35: a /logs response to a request that names offset >= 0 and
\* limit >= 1 carries exactly the entries offset .. min(offset + limit,
\* total) - 1 in order, never more than limit of them, and the full length
\* of the log as total.
C35_LogsPageExact ==
  ( /\ "logs" \in DOMAIN res
    /\ res.query.offset # Absent
    /\ res.query.limit # Absent )
  => LET total == BagCardinality(activeDeployments[res.deploymentId].logs)
         first == Min(res.query.offset, total)
         last == Min(res.query.offset + res.query.limit, total)
     IN /\ res.total = total
        /\ Len(res.logs) <= res.query.limit
        /\ res.logs = [ k \in 1..(last - first) |-> first + k ]

\* ------------------------------------------------ the client's step list
\* useState<DeploymentStep[]> of components/DeploymentProgressStep.tsx: the
\* ids of the steps the client shows
deploymentSteps ==
  << "clone", "build", "ecr-setup", "push", "terraform-init",
     "terraform-plan", "terraform-apply", "kubectl-config", "deploy-app",
     "verify-deployment" >>

\* the step list before any event: every step pending
ClientPending == [ i \in 1..Len(deploymentSteps) |-> "pending" ]

\* updateStepStatus(stepId, status): the step of that id takes the status,
\* the other steps stay as they are
updateStepStatus(shown, stepId, status) ==
  [ i \in 1..Len(shown) |->
      IF deploymentSteps[i] = stepId THEN status ELSE shown[i] ]

\* C36: every stage id in a step-update event is an id of the client's step
\* list, and the client's handler of the event puts the event's status on
\* the step of that id.
C36_StepUpdateMatchesClientStep ==
  \A i \in 1..Len(io) :
    io[i].name = "step-update" =>
      \E k \in 1..Len(deploymentSteps) :
        /\ deploymentSteps[k] = io[i].stepId
        /\ updateStepStatus(ClientPending, io[i].stepId, io[i].status)[k] =
             io[i].status

\* the names of the docker commands that ran in a step, in order
Commands(ran) == [ i \in 1..Len(ran) |-> ran[i].command ]

\* the push handler of the operation op ends in this step
PushEnds(op) ==
  /\ op \in DOMAIN activeECROperations
  /\ activeECROperations[op].pc = "authorization"
  /\ activeECROperations'[op].pc = "done"

\* C37: the push handler runs docker login, tag and push in that order and
\* runs a command only when every command before it exited with code 0;
\* when a command does not exit with 0 the step emits an error log and the
\* request is answered with an error, and the operation is marked completed
\* exactly when push exited with 0.
C37_PushCommandsInOrder ==
  [][ \A op \in DOMAIN activeECROperations : PushEnds(op) =>
        /\ \E n \in 0..3 :
             Commands(spawned') = SubSeq(<<"login", "tag", "push">>, 1, n)
        /\ \A i \in 1..Len(spawned') :
             i < Len(spawned') => spawned'[i].status = 0
        /\ ( \E i \in 1..Len(spawned') : spawned'[i].status # 0 ) =>
             /\ \E j \in 1..Len(io') :
                  io'[j].level = "error" /\ io'[j].operationId = op
             /\ res'.code = 500
        /\ activeECROperations'[op].status = "completed" <=>
             ( Len(spawned') = 3 /\ spawned'[3].status = 0 )
        /\ res'.code = 200 <=>
             activeECROperations'[op].status = "completed" ]_vars

\* a push handler has stopped at a docker command that did not exit with 0
C37_Witness ==
  /\ Len(spawned) = 2
  /\ spawned[2].status # 0
  /\ res.code = 500

InProgressStatuses == {"authenticating", "tagging", "pushing", "cloning",
                       "building"}

\* C38: once the handler of a push operation or of a docker build has
\* answered, the record has a final status; when the answer is an error the
\* status is failed and the record carries the error message.
C38_RecordsEndFinal ==
  /\ \A op \in DOMAIN activeECROperations :
       activeECROperations[op].pc = "done" =>
         /\ activeECROperations[op].status \notin InProgressStatuses
         /\ activeECROperations[op].status # "completed" =>
              /\ activeECROperations[op].status = "failed"
              /\ activeECROperations[op].error # Null
  /\ \A b \in DOMAIN activeBuilds :
       activeBuilds[b].pc = "done" =>
         /\ activeBuilds[b].status \notin InProgressStatuses
         /\ activeBuilds[b].status # "completed" =>
              /\ activeBuilds[b].status = "failed"
              /\ activeBuilds[b].error # Null

\* the step handles a terraform request for the session s
TerraformRequested(s) ==
  /\ InMap(s)
  /\ terraformSessions'[s].request # terraformSessions[s].request

\* C39: a terraform-init, -plan or -apply request for a known session
\* leaves the status init-complete, plan-complete or apply-complete exactly
\* when terraform exits with code 0; otherwise the request is answered
\* with an error, and for apply the status becomes apply-failed.
C39_TerraformEndpointsAdvance ==
  [][ \A s \in DOMAIN terraformSessions : TerraformRequested(s) =>
        LET request == terraformSessions'[s].request
            status == terraformSessions'[s].status
        IN /\ status = CompleteStatus(request.command) <=>
                request.wouldExit = 0
           /\ request.wouldExit # 0 =>
                /\ res'.code \in {400, 500}
                /\ request.command = "apply" => status = "apply-failed"
    ]_vars

\* the stage a run executes last: terraform-apply when it destroys
LastStage(isDestroy) == IF isDestroy THEN "terraform-apply" ELSE "verify"

\* C40: a workflow that is not in destroy mode and has status completed
\* has ten stages, each completed or skipped; a step emits at most one
\* deployment-completed event for a workflow, after the completed
\* step-update of the last stage of the run and as the last act of that
\* run, which does nothing afterwards.
C40_CompletedWithFinalStages ==
  [][ /\ \A d \in DOMAIN activeDeployments' :
           ( /\ activeDeployments'[d].status = "completed"
             /\ ~activeDeployments'[d].config.destroy_mode )
           => /\ Len(activeDeployments'[d].steps) = 10
              /\ \A i \in 1..Len(activeDeployments'[d].steps) :
                   activeDeployments'[d].steps[i].status \in
                     {"completed", "skipped"}
      /\ \A d \in DOMAIN activeDeployments' :
           LET completions == EventsOf(io', d, {"deployment-completed"})
           IN /\ Cardinality(completions) <= 1
              /\ \A i \in completions :
                   /\ \E j \in 1..(i - 1) :
                        io'[j] = StepUpdateEvent(d, LastStage(io'[i].isDestroy),
                                                 "completed")
                   /\ \E r \in DOMAIN runs :
                        /\ runs[r].dep = d
                        /\ runs[r].state = "active"
                        /\ runs'[r].state = "done"
      /\ \A r \in DOMAIN runs :
           runs[r].state = "done" => ~Acts(r)
    ]_vars

\* a workflow outside destroy mode has completed and its completion was
\* announced in the last step
C40_Witness ==
  \E d \in DOMAIN activeDeployments :
    /\ activeDeployments[d].status = "completed"
    /\ ~activeDeployments[d].config.destroy_mode
    /\ EventsOf(io, d, {"deployment-completed"}) # {}
====
